---- MODULE Spec2Model ----
(***************************************************************************)
(* Job lifecycle of the compliance checker: the job table of               *)
(* backend/main.py, the request handlers that read and write it, and the   *)
(* background run (run_evaluation driving                                  *)
(* ComplianceAnalyzer.analyze_document) that evaluates a document control  *)
(* by control.                                                             *)
(*                                                                         *)
(* Every handler is an `async def` served by one asyncio event loop, so a  *)
(* coroutine runs without interruption from one await to the next.  The    *)
(* variable `running` is the coroutine that holds the event loop: the      *)
(* statements of a synchronous stretch are separate steps of the model,    *)
(* and no other coroutine takes a step until the stretch reaches an await. *)
(***************************************************************************)
EXTENDS Integers, Sequences, FiniteSets, TLC

\* ----------------------------------------------------------------- bounds
MaxRuns == 2            \* evaluate requests accepted in one behaviour

\* ------------------------------------------------------------ Python None
None == <<>>
Some(x) == <<x>>
Val(o) == o[1]

\* ------------------------------------------------------------- the inputs
\* the job ids of the requests: an id is unknown to the job table until an
\* upload has produced it, and again after its deletion
JobIds == {1, 2}
NoJobId == 0

\* vector_store.indexes: the frameworks that are loaded
Indexes == {"nca_en", "nist_en"}

\* vector_store.get_all_controls(framework): the control ids, in repository order
get_all_controls(framework) ==
    IF framework = "nca_en" THEN <<"1-1-1", "1-1-2">>
    ELSE IF framework = "nist_en" THEN <<"GV.OC-01">>
    ELSE <<>>

\* the evaluate requests that are tried (request.frameworks, request.max_controls):
\* two frameworks in full, one framework cut to its first control, a
\* framework that is not indexed, and an indexed framework followed by one
\* that is not
EvaluationRequests ==
    {[frameworks |-> <<"nca_en", "nist_en">>, max_controls |-> None],
     [frameworks |-> <<"nca_en">>, max_controls |-> Some(1)],
     [frameworks |-> <<"iso_27001">>, max_controls |-> None],
     [frameworks |-> <<"nca_en", "cis_v8">>, max_controls |-> None]}

\* file names of the uploads that are tried
Filenames == {"policy.txt", "policy.exe"}
ALLOWED_EXTENSIONS == {"policy.txt"}

NoRun == 0

VARIABLES
    job_obj,      \* the job dictionaries ever created, by job id
    job_storage,  \* the keys of the job table: job_storage[j] is job_obj[j]
    runs,         \* the background tasks scheduled so far, in scheduling order
    running,      \* the run that holds the event loop, or NoRun
    evaluator,    \* compliance_analyzer.evaluator is set (GROQ_API_KEY configured)
    now,          \* datetime.utcnow(): a logical clock, kept per job (the order
                  \* of two jobs' timestamps is not modelled)
    response,     \* the response of the last request served
    \* one call of MultiLayerEvaluator.evaluate_control
    stage,          \* where the call is: "idle", "layer1", "layer2", "layer3",
                    \* "returned" or "raised"
    attempts,       \* attempts[n]: the model.ainvoke calls made for layer n
    retry_errors,   \* the layers whose _call_llm ended in tenacity's RetryError
    invocations,    \* invocations[n]: the calls of the layer n method
    layer1_result,  \* what each layer method returned, None before it has
    layer2_result,
    layer3_result,
    evaluation,     \* what evaluate_control returned, None before it has
    \* one call of MultiLayerEvaluator._score_to_status
    score,          \* its argument
    band,           \* what it returned, None before it has
    \* one call of a synchronous method of ComplianceAnalyzer
    args,           \* its arguments
    ret,            \* what it returned, None before it has
    \* one job storage object of job_storage.py and its callers
    backend,        \* "file" (FileJobStorage) or "supabase" (SupabaseJobStorage)
    _cache,         \* self._cache: job id -> job dictionary
    table,          \* what is persisted: the rows of backend_jobs, or the
                    \* contents of the <job_id>.json files
    _lock,          \* self._lock: the method that holds it, or "free"
    call            \* the method call under way, or the last one

\* the variables of the job table and its runs, of one evaluate_control call,
\* of one _score_to_status call, of one call of a method of the analyzer, and
\* of a job storage object
jvars == <<job_obj, job_storage, runs, running, evaluator, now, response>>
evars == <<stage, attempts, retry_errors, invocations, layer1_result, layer2_result,
           layer3_result, evaluation>>
bvars == <<score, band>>
fvars == <<args, ret>>
svars == <<backend, _cache, table, _lock, call>>
\* what the steps of the job table and its runs leave alone
cvars == <<evars, bvars, fvars, svars>>
vars == <<jvars, cvars>>

Layers == {1, 2, 3}

\* no evaluate_control call and no _score_to_status call is under way
EvaluatorIdle ==
    /\ stage = "idle"
    /\ attempts = [n \in Layers |-> 0]
    /\ retry_errors = {}
    /\ invocations = [n \in Layers |-> 0]
    /\ layer1_result = None
    /\ layer2_result = None
    /\ layer3_result = None
    /\ evaluation = None

BandIdle ==
    /\ score = 0
    /\ band = None

\* no method of the analyzer is called, and no storage object is in use
AnalyzerIdle ==
    /\ args = None
    /\ ret = None

StorageIdle ==
    /\ backend = "none"
    /\ _cache = <<>>
    /\ table = <<>>
    /\ _lock = "free"
    /\ call = [op |-> "none"]

RunIds == 1..Len(runs)

\* a dictionary that was never created, and one that nothing refers to any more
NoJob == [status |-> "absent"]
Freed == [status |-> "freed"]

\* ------------------------------------------------------------------ Init
\* the state after import and startup: an empty job table, nothing scheduled
JobsIdle ==
    /\ job_obj = [j \in JobIds |-> NoJob]
    /\ job_storage = {}
    /\ runs = <<>>
    /\ running = NoRun
    /\ evaluator \in BOOLEAN
    /\ now = [j \in JobIds |-> 1]
    /\ response = [op |-> "none", job_id |-> NoJobId, status_code |-> 0,
                   detail |-> "", body |-> None]

Init ==
    /\ JobsIdle
    /\ EvaluatorIdle
    /\ BandIdle
    /\ AnalyzerIdle
    /\ StorageIdle

\* the event loop serves a request, or resumes a coroutine, only when no
\* coroutine is in a synchronous stretch
EventLoopFree_Threaded == TRUE
EventLoopFree == running = NoRun

Respond(op, j, code, detail, body) ==
    response' = [op |-> op, job_id |-> j, status_code |-> code,
                 detail |-> detail, body |-> body]

\* -------------------------------------------------------- upload_document
\* uuid.uuid4(): an id no job has had
NewJobId == Cardinality({j \in JobIds : job_obj[j] # NoJob}) + 1

upload_document(filename) ==
    /\ EventLoopFree
    /\ IF filename \notin ALLOWED_EXTENSIONS
       THEN /\ Respond("upload", NoJobId, 400, "Unsupported file format", None)
            /\ UNCHANGED <<job_obj, job_storage, now>>
       ELSE /\ NewJobId \in JobIds
            /\ job_obj' = [job_obj EXCEPT ![NewJobId] =
                   [status |-> "uploaded", filename |-> filename,
                    created_at |-> Some(now[NewJobId]), results |-> None, progress |-> None,
                    frameworks |-> None, started_at |-> None,
                    completed_at |-> None, error |-> None, failed_at |-> None]]
            /\ job_storage' = job_storage \cup {NewJobId}
            /\ now' = [now EXCEPT ![NewJobId] = @ + 1]
            /\ Respond("upload", NewJobId, 200, "Document uploaded successfully",
                       Some([status |-> "uploaded"]))
    /\ UNCHANGED <<runs, running, evaluator, cvars>>

\* ------------------------------------------------------- start_evaluation
AlreadyInProgress == "Evaluation already in progress"
AlreadyCompleted == "Evaluation already completed"

\* the status checks of start_evaluation
IsProcessing_Never(job) == FALSE
IsProcessing(job) == job.status = "processing"

IsCompleted_Never(job) == FALSE
IsCompleted(job) == job.status = "completed"

\* "Validate frameworks": every requested framework is indexed
FrameworksAvailable_FirstOnly(frameworks) ==
    frameworks[1] \in Indexes
FrameworksAvailable(frameworks) ==
    \A k \in 1..Len(frameworks) : frameworks[k] \in Indexes

\* the framework that the validation loop stops at: the first not indexed
Unavailable(frameworks) ==
    LET k == CHOOSE k \in 1..Len(frameworks) :
                /\ frameworks[k] \notin Indexes
                /\ \A l \in 1..(k - 1) : frameworks[l] \in Indexes
    IN  frameworks[k]

\* the background task that add_task schedules
NewRun(j, frameworks, max_controls) ==
    [job_id |-> j, frameworks |-> frameworks, max_controls |-> max_controls,
     pc |-> "pending", job |-> None, results |-> None, fi |-> 0,
     all_controls |-> <<>>, i |-> 0, evaluated_controls |-> <<>>,
     e |-> None, updates |-> <<>>]

start_evaluation(j, frameworks, max_controls) ==
    /\ EventLoopFree
    /\ IF j \notin job_storage
       THEN /\ Respond("evaluate", j, 404, "Job not found", None)
            /\ UNCHANGED <<job_obj, runs, now>>
       ELSE IF IsProcessing(job_obj[j])
       THEN /\ Respond("evaluate", j, 400, AlreadyInProgress, None)
            /\ UNCHANGED <<job_obj, runs, now>>
       ELSE IF IsCompleted(job_obj[j])
       THEN /\ Respond("evaluate", j, 200, AlreadyCompleted,
                       Some([status |-> "completed"]))
            /\ UNCHANGED <<job_obj, runs, now>>
       ELSE IF ~FrameworksAvailable(frameworks)
       THEN /\ Respond("evaluate", j, 400, "Framework not available",
                       Some([framework |-> Unavailable(frameworks)]))
            /\ UNCHANGED <<job_obj, runs, now>>
       ELSE /\ Len(runs) < MaxRuns
            /\ job_obj' = [job_obj EXCEPT ![j].status = "processing",
                                          ![j].frameworks = Some(frameworks),
                                          ![j].started_at = Some(now[j])]
            /\ now' = [now EXCEPT ![j] = @ + 1]
            /\ runs' = Append(runs, NewRun(j, frameworks, max_controls))
            /\ Respond("evaluate", j, 200, "Evaluation started",
                       Some([status |-> "processing"]))
    /\ UNCHANGED <<job_storage, running, evaluator, cvars>>

\* --------------------------------------------------------- get_job_status
get_job_status(j) ==
    /\ EventLoopFree
    /\ IF j \notin job_storage
       THEN Respond("status", j, 404, "Job not found", None)
       ELSE Respond("status", j, 200, "",
                Some([status |-> job_obj[j].status,
                      filename |-> job_obj[j].filename,
                      progress |-> job_obj[j].progress,
                      created_at |-> job_obj[j].created_at,
                      started_at |-> job_obj[j].started_at,
                      completed_at |-> job_obj[j].completed_at,
                      error |-> job_obj[j].error]))
    /\ UNCHANGED <<job_obj, job_storage, runs, running, evaluator, now, cvars>>

\* ------------------------------------------------------------ get_results
NotCompleted_Never(job) == FALSE
NotCompleted(job) == job.status # "completed"

get_results(j) ==
    /\ EventLoopFree
    /\ IF j \notin job_storage
       THEN Respond("results", j, 404, "Job not found", None)
       ELSE IF NotCompleted(job_obj[j])
       THEN Respond("results", j, 400, "Job not completed", None)
       ELSE IF job_obj[j].results = None
       \* job["results"]["document_info"] on None raises TypeError: the
       \* global exception handler answers 500
       THEN Respond("results", j, 500, "Internal server error", None)
       ELSE Respond("results", j, 200, "",
                Some([status |-> "completed",
                      document_info |-> Val(job_obj[j].results).document_info,
                      summary |-> Val(job_obj[j].results).summary,
                      frameworks |-> Val(job_obj[j].results).frameworks]))
    /\ UNCHANGED <<job_obj, job_storage, runs, running, evaluator, now, cvars>>

\* ------------------------------------------------------------- delete_job
\* a run that has fetched the dictionary still refers to it
Referenced(j) ==
    \E r \in RunIds : runs[r].job = Some(j) /\ runs[r].pc # "done"

delete_job(j) ==
    /\ EventLoopFree
    /\ IF j \notin job_storage
       THEN /\ Respond("delete", j, 404, "Job not found", None)
            /\ UNCHANGED <<job_storage, job_obj>>
       ELSE /\ job_storage' = job_storage \ {j}
            /\ job_obj' = [job_obj EXCEPT ![j] = IF Referenced(j) THEN @ ELSE Freed]
            /\ Respond("delete", j, 200, "deleted successfully", None)
    /\ UNCHANGED <<runs, running, evaluator, now, cvars>>

\* ---------------------------------------------------------- run_evaluation
\* One background task.  Its await points are "pending" (scheduled, not yet
\* started), "awaiting_evaluation" (await self.evaluator.evaluate_control) and
\* "sleep" (await asyncio.sleep(0.1)); every other pc is inside a synchronous
\* stretch, which the run executes while it holds the event loop.
EmptyDict == <<>>

Min(a, b) == IF a < b THEN a ELSE b

\* round(x, 1) of x = current / total * 100, in tenths of a percent (ties to even)
Percentage(current, total) ==
    LET q == (1000 * current) \div total
        rem == (1000 * current) % total
    IN  IF 2 * rem > total THEN q + 1
        ELSE IF 2 * rem < total THEN q
        ELSE IF q % 2 = 0 THEN q ELSE q + 1

\* enumerate(all_controls) counts from 0; the callback is given i + 1
CallbackIndex_ZeroBased(i) == i
CallbackIndex(i) == i + 1

\* all_controls[:max_controls] when max_controls is truthy
Truncate(all_controls, max_controls) ==
    IF max_controls = None \/ Val(max_controls) = 0
    THEN all_controls
    ELSE SubSeq(all_controls, 1, Min(Val(max_controls), Len(all_controls)))

\* the statements that the try block of run_evaluation covers
InTry_LoopOnly(pc) == pc \in {"awaiting_evaluation", "stats"}
InTry(pc) ==
    pc \in {"extract_text", "framework", "control", "progress_callback", "evaluate",
            "awaiting_evaluation", "sleep", "stats", "summary"}

\* the dictionary the run writes: the one it fetched, in the table or not
JobOf(r) == Val(runs[r].job)

\* the task has ended: its locals are gone
Ended(run) ==
    [NewRun(run.job_id, <<>>, None) EXCEPT !.pc = "done"]

\* the dictionaries once run r has ended: the one it wrote is gone with it when
\* the job table does not hold it any more
Release(objs, r) ==
    IF runs[r].job = None \/ JobOf(r) \in job_storage
    THEN objs
    ELSE [objs EXCEPT ![JobOf(r)] = Freed]

\* str(e) of an exception raised in a run
ExceptionMessage == "error"

\* an exception raised at the run's pc: the except clause takes it, or the
\* task ends with it
Raise(r) ==
    IF InTry(runs[r].pc)
    THEN /\ runs' = [runs EXCEPT ![r].pc = "except", ![r].e = Some(ExceptionMessage)]
         /\ running' = r
         /\ UNCHANGED job_obj
    ELSE /\ runs' = [runs EXCEPT ![r] = Ended(@)]
         /\ running' = NoRun
         /\ job_obj' = Release(job_obj, r)

\* job = job_storage.get(job_id); if not job: return
run_begin(r) ==
    /\ r \in RunIds
    /\ runs[r].pc = "pending"
    /\ running = NoRun
    /\ IF runs[r].job_id \notin job_storage
       THEN /\ runs' = [runs EXCEPT ![r] = Ended(@)]
            /\ UNCHANGED running
       ELSE /\ runs' = [runs EXCEPT ![r].pc = "extract_text",
                                    ![r].job = Some(runs[r].job_id)]
            /\ running' = r
    /\ UNCHANGED <<job_obj, job_storage, evaluator, now, response, cvars>>

\* analyze_document: extract_text, chunk_text, the empty results
run_extract_text(r) ==
    /\ r \in RunIds
    /\ runs[r].pc = "extract_text"
    /\ running = r
    /\ \/ Raise(r)
       \/ /\ runs' = [runs EXCEPT
                ![r].pc = "framework",
                ![r].fi = 1,
                ![r].results = Some([document_info |->
                                        [filename |-> job_obj[JobOf(r)].filename],
                                     frameworks |-> {},
                                     summary |-> EmptyDict])]
          /\ UNCHANGED <<running, job_obj>>
    /\ UNCHANGED <<job_storage, evaluator, now, response, cvars>>

\* for framework in frameworks: ... all_controls, total_controls, evaluated_controls
run_framework(r) ==
    /\ r \in RunIds
    /\ runs[r].pc = "framework"
    /\ running = r
    /\ IF runs[r].fi > Len(runs[r].frameworks)
       THEN runs' = [runs EXCEPT ![r].pc = "summary"]
       ELSE runs' = [runs EXCEPT
                ![r].pc = "control",
                ![r].all_controls =
                    Truncate(get_all_controls(runs[r].frameworks[runs[r].fi]),
                             runs[r].max_controls),
                ![r].i = 0,
                ![r].evaluated_controls = <<>>]
    /\ UNCHANGED <<job_obj, job_storage, running, evaluator, now, response, cvars>>

\* for i, control in enumerate(all_controls)
run_control(r) ==
    /\ r \in RunIds
    /\ runs[r].pc = "control"
    /\ running = r
    /\ IF runs[r].i >= Len(runs[r].all_controls)
       THEN runs' = [runs EXCEPT ![r].pc = "stats"]
       ELSE runs' = [runs EXCEPT ![r].pc = "progress_callback"]
    /\ UNCHANGED <<job_obj, job_storage, running, evaluator, now, response, cvars>>

\* progress_callback(framework, i + 1, total_controls, control_id)
run_progress_callback(r) ==
    /\ r \in RunIds
    /\ runs[r].pc = "progress_callback"
    /\ running = r
    /\ LET current == CallbackIndex(runs[r].i)
           total == Len(runs[r].all_controls)
           update == [framework |-> runs[r].frameworks[runs[r].fi],
                      current_control |-> current,
                      total_controls |-> total,
                      control_id |-> runs[r].all_controls[runs[r].i + 1],
                      percentage |-> Percentage(current, total)]
       IN  /\ job_obj' = [job_obj EXCEPT ![JobOf(r)].progress = Some(update)]
           /\ runs' = [runs EXCEPT ![r].pc = "evaluate",
                                   ![r].updates = Append(@, update)]
    /\ UNCHANGED <<job_storage, running, evaluator, now, response, cvars>>

\* _mock_evaluation(control): the evaluation given without an evaluator
_mock_evaluation_NonCompliant(control_id) ==
    [control_id |-> control_id, final_score |-> 0,
     compliance_status |-> "non_compliant", confidence |-> 0, mock |-> TRUE]
_mock_evaluation(control_id) ==
    [control_id |-> control_id, final_score |-> 0,
     compliance_status |-> "not_evaluated", confidence |-> 0, mock |-> TRUE]

\* evaluation = await self.evaluator.evaluate_control(...): the run waits at
\* the call until it has returned
Await_FireAndForget == "sleep"
Await == "awaiting_evaluation"

\* the evaluation of control i + 1 starts: with an evaluator the run awaits
\* evaluate_control; without one _mock_evaluation answers at once and the run
\* goes on to asyncio.sleep
run_evaluate(r) ==
    /\ r \in RunIds
    /\ runs[r].pc = "evaluate"
    /\ running = r
    /\ IF evaluator
       THEN runs' = [runs EXCEPT ![r].pc = Await]
       ELSE runs' = [runs EXCEPT
                ![r].pc = "sleep",
                ![r].evaluated_controls =
                    Append(@, _mock_evaluation(runs[r].all_controls[runs[r].i + 1]))]
    /\ running' = NoRun
    /\ UNCHANGED <<job_obj, job_storage, evaluator, now, response, cvars>>

\* evaluate_control returns its evaluation, or raises
run_evaluation_done(r) ==
    /\ r \in RunIds
    /\ runs[r].pc = "awaiting_evaluation"
    /\ running = NoRun
    /\ \/ Raise(r)
       \/ /\ runs' = [runs EXCEPT
                ![r].pc = "sleep",
                ![r].evaluated_controls =
                    Append(@, [control_id |-> runs[r].all_controls[runs[r].i + 1],
                               mock |-> FALSE])]
          /\ UNCHANGED <<running, job_obj>>
    /\ UNCHANGED <<job_storage, evaluator, now, response, cvars>>

\* asyncio.sleep(0.1) is over: the next iteration
run_sleep_done(r) ==
    /\ r \in RunIds
    /\ runs[r].pc = "sleep"
    /\ running = NoRun
    /\ runs' = [runs EXCEPT ![r].pc = "control", ![r].i = @ + 1]
    /\ running' = r
    /\ UNCHANGED <<job_obj, job_storage, evaluator, now, response, cvars>>

\* _calculate_framework_stats, _organize_by_structure,
\* results["frameworks"][framework] = framework_result
run_stats(r) ==
    /\ r \in RunIds
    /\ runs[r].pc = "stats"
    /\ running = r
    /\ \/ /\ evaluator
          /\ runs[r].evaluated_controls # <<>>
          /\ Raise(r)
       \/ LET framework == runs[r].frameworks[runs[r].fi]
              framework_result ==
                  [framework |-> framework,
                   total_controls |-> Len(runs[r].all_controls),
                   controls |-> runs[r].evaluated_controls]
              results == Val(runs[r].results)
          IN  /\ runs' = [runs EXCEPT
                    ![r].pc = "framework",
                    ![r].fi = @ + 1,
                    ![r].results = Some([results EXCEPT !.frameworks =
                        {x \in @ : x.framework # framework} \cup {framework_result}])]
              /\ UNCHANGED <<running, job_obj>>
    /\ UNCHANGED <<job_storage, evaluator, now, response, cvars>>

\* number of controls evaluated over all the framework results
RECURSIVE CountControls(_)
CountControls(framework_results) ==
    IF framework_results = {} THEN 0
    ELSE LET x == CHOOSE y \in framework_results : TRUE
         IN  Len(x.controls) + CountControls(framework_results \ {x})

\* results["summary"] = self._generate_summary(results["frameworks"]); return results
run_summary(r) ==
    /\ r \in RunIds
    /\ runs[r].pc = "summary"
    /\ running = r
    /\ LET results == Val(runs[r].results)
       IN  \/ /\ evaluator
              /\ CountControls(results.frameworks) > 0
              /\ Raise(r)
           \/ /\ runs' = [runs EXCEPT
                    ![r].pc = "set_status",
                    ![r].results = Some([results EXCEPT !.summary =
                        Some([total_controls_evaluated |->
                                  CountControls(results.frameworks),
                              frameworks_analyzed |->
                                  {x.framework : x \in results.frameworks}])])]
              /\ UNCHANGED <<running, job_obj>>
    /\ UNCHANGED <<job_storage, evaluator, now, response, cvars>>

\* job["status"] = "completed"
run_set_status_Stores(r) ==
    /\ r \in RunIds
    /\ runs[r].pc = "set_status"
    /\ running = r
    /\ job_obj' = [job_obj EXCEPT ![JobOf(r)].status = "completed"]
    /\ job_storage' = job_storage \cup {JobOf(r)}
    /\ runs' = [runs EXCEPT ![r].pc = "set_completed_at"]
    /\ UNCHANGED <<running, evaluator, now, response, cvars>>
run_set_status(r) ==
    /\ r \in RunIds
    /\ runs[r].pc = "set_status"
    /\ running = r
    /\ job_obj' = [job_obj EXCEPT ![JobOf(r)].status = "completed"]
    /\ runs' = [runs EXCEPT ![r].pc = "set_completed_at"]
    /\ UNCHANGED <<job_storage, running, evaluator, now, response, cvars>>

\* job["completed_at"] = datetime.utcnow().isoformat()
run_set_completed_at(r) ==
    /\ r \in RunIds
    /\ runs[r].pc = "set_completed_at"
    /\ running = r
    /\ job_obj' = [job_obj EXCEPT ![JobOf(r)].completed_at = Some(now[JobOf(r)])]
    /\ now' = [now EXCEPT ![JobOf(r)] = @ + 1]
    /\ runs' = [runs EXCEPT ![r].pc = "set_results"]
    /\ UNCHANGED <<job_storage, running, evaluator, response, cvars>>

\* job["results"] = results; the task ends
run_set_results(r) ==
    /\ r \in RunIds
    /\ runs[r].pc = "set_results"
    /\ running = r
    /\ job_obj' = Release([job_obj EXCEPT ![JobOf(r)].results = runs[r].results], r)
    /\ runs' = [runs EXCEPT ![r] = Ended(@)]
    /\ running' = NoRun
    /\ UNCHANGED <<job_storage, evaluator, now, response, cvars>>

\* except Exception as e: job["status"] = "failed"
run_except(r) ==
    /\ r \in RunIds
    /\ runs[r].pc = "except"
    /\ running = r
    /\ job_obj' = [job_obj EXCEPT ![JobOf(r)].status = "failed"]
    /\ runs' = [runs EXCEPT ![r].pc = "except_error"]
    /\ UNCHANGED <<job_storage, running, evaluator, now, response, cvars>>

\* job["error"] = str(e)
run_except_error(r) ==
    /\ r \in RunIds
    /\ runs[r].pc = "except_error"
    /\ running = r
    /\ job_obj' = [job_obj EXCEPT ![JobOf(r)].error = runs[r].e]
    /\ runs' = [runs EXCEPT ![r].pc = "except_failed_at"]
    /\ UNCHANGED <<job_storage, running, evaluator, now, response, cvars>>

\* job["failed_at"] = datetime.utcnow().isoformat(); the task ends
run_except_failed_at(r) ==
    /\ r \in RunIds
    /\ runs[r].pc = "except_failed_at"
    /\ running = r
    /\ job_obj' = Release([job_obj EXCEPT ![JobOf(r)].failed_at = Some(now[JobOf(r)])], r)
    /\ now' = [now EXCEPT ![JobOf(r)] = @ + 1]
    /\ runs' = [runs EXCEPT ![r] = Ended(@)]
    /\ running' = NoRun
    /\ UNCHANGED <<job_storage, evaluator, response, cvars>>

\* ------------------------------------------------------------------ Next
Next ==
    \/ \E filename \in Filenames : upload_document(filename)
    \/ \E j \in JobIds, request \in EvaluationRequests :
            start_evaluation(j, request.frameworks, request.max_controls)
    \/ \E j \in JobIds : get_job_status(j)
    \/ \E j \in JobIds : get_results(j)
    \/ \E j \in JobIds : delete_job(j)
    \/ \E r \in 1..MaxRuns : run_begin(r)
    \/ \E r \in 1..MaxRuns : run_extract_text(r)
    \/ \E r \in 1..MaxRuns : run_framework(r)
    \/ \E r \in 1..MaxRuns : run_control(r)
    \/ \E r \in 1..MaxRuns : run_progress_callback(r)
    \/ \E r \in 1..MaxRuns : run_evaluate(r)
    \/ \E r \in 1..MaxRuns : run_evaluation_done(r)
    \/ \E r \in 1..MaxRuns : run_sleep_done(r)
    \/ \E r \in 1..MaxRuns : run_stats(r)
    \/ \E r \in 1..MaxRuns : run_summary(r)
    \/ \E r \in 1..MaxRuns : run_set_status(r)
    \/ \E r \in 1..MaxRuns : run_set_completed_at(r)
    \/ \E r \in 1..MaxRuns : run_set_results(r)
    \/ \E r \in 1..MaxRuns : run_except(r)
    \/ \E r \in 1..MaxRuns : run_except_error(r)
    \/ \E r \in 1..MaxRuns : run_except_failed_at(r)

Spec == Init /\ [][Next]_vars

\* ================================================================ claims
\* the runs of job j that have not ended
ActiveRuns(j) == {r \in RunIds : runs[r].job_id = j /\ runs[r].pc # "done"}

\* C1: an evaluate request on a job whose status is processing is answered
\* 400 "Evaluation already in progress"; the step leaves the job's dictionary
\* (status, progress, frameworks, started_at) as it was and schedules no run.
C1_RejectedWhileProcessing ==
    [][\A j \in JobIds, request \in EvaluationRequests :
         ( /\ j \in job_storage
           /\ job_obj[j].status = "processing"
           /\ start_evaluation(j, request.frameworks, request.max_controls) )
         => /\ response'.status_code = 400
            /\ response'.detail = AlreadyInProgress
            /\ job_obj'[j] = job_obj[j]
            /\ runs' = runs]_vars

\* a rejected evaluate request on a job that is being processed
C1_Witness ==
    /\ response.op = "evaluate"
    /\ response.detail = AlreadyInProgress
    /\ job_obj[response.job_id].status = "processing"
    /\ job_obj[response.job_id].progress # None

\* C2: an exception raised in a run is taken by the except clause; from then
\* on the job's progress is not written, and when the run ends the job is
\* failed with error and failed_at set; no job of the table is in status
\* processing without a run that has not ended.
C2_FailedOnException ==
    [][/\ \A r \in RunIds :
            /\ (runs[r].e = None /\ runs[r].pc # "done" /\ runs'[r].e # None)
                  => /\ runs'[r].pc = "except"
                     /\ job_obj'[JobOf(r)].progress = job_obj[JobOf(r)].progress
            /\ (runs[r].e # None /\ JobOf(r) \in job_storage')
                  => /\ job_obj'[JobOf(r)].progress = job_obj[JobOf(r)].progress
                     /\ runs'[r].pc = "done"
                          => /\ job_obj'[JobOf(r)].status = "failed"
                             /\ job_obj'[JobOf(r)].error # None
                             /\ job_obj'[JobOf(r)].failed_at # None
       /\ \A j \in job_storage' :
            job_obj'[j].status = "processing"
               => \E r \in 1..Len(runs') :
                     runs'[r].job_id = j /\ runs'[r].pc # "done"]_vars

\* a job whose run raised half-way and has ended
C2_Witness ==
    \E j \in job_storage :
        /\ job_obj[j].status = "failed"
        /\ job_obj[j].error # None
        /\ job_obj[j].failed_at # None
        /\ job_obj[j].progress # None
        /\ ActiveRuns(j) = {}

\* C3: whenever a request can be served, a completed job of the table has
\* results with document_info, a generated summary and a result for each
\* requested framework; a results response is 404, or 400 without a body,
\* or 200 with those complete results.
CompleteResults(results, frameworks) ==
    /\ results # None
    /\ Val(results).document_info.filename \in Filenames
    /\ Val(results).summary # EmptyDict
    /\ {x.framework : x \in Val(results).frameworks} =
           {frameworks[k] : k \in 1..Len(frameworks)}

C3_CompletedHasResults ==
    /\ \A j \in job_storage :
          (running = NoRun /\ job_obj[j].status = "completed")
             => CompleteResults(job_obj[j].results, Val(job_obj[j].frameworks))
    /\ response.op = "results" =>
          \/ response.status_code = 404 /\ response.body = None
          \/ response.status_code = 400 /\ response.body = None
          \/ /\ response.status_code = 200
             /\ response.body # None
             /\ Val(response.body).summary # EmptyDict
             /\ response.job_id \in job_storage =>
                   {x.framework : x \in Val(response.body).frameworks} =
                      {Val(job_obj[response.job_id].frameworks)[k] :
                          k \in 1..Len(Val(job_obj[response.job_id].frameworks))}

\* the results of a completed job have been served
C3_Witness ==
    /\ response.op = "results"
    /\ response.status_code = 200
    /\ Cardinality(Val(response.body).frameworks) = 2

\* C4: the job's results are written before its status is set to completed:
\* a dictionary whose status is completed has its results.
C4_ResultsWrittenBeforeStatus ==
    \A j \in JobIds :
        job_obj[j].status = "completed" => job_obj[j].results # None

\* C5: the snapshot of a status poll is the job at one point of its life:
\* its progress fields come from one progress update, and its status, its
\* timestamps and its error go together.
ConsistentSnapshot(b) ==
    /\ b.progress # None =>
          /\ Val(b.progress).current_control \in 1..Val(b.progress).total_controls
          /\ Val(b.progress).percentage =
                Percentage(Val(b.progress).current_control,
                           Val(b.progress).total_controls)
    /\ b.status = "uploaded" =>
          /\ b.progress = None /\ b.started_at = None
          /\ b.completed_at = None /\ b.error = None
    /\ b.status = "processing" => b.started_at # None /\ b.completed_at = None
    /\ b.status = "completed" =>
          /\ b.started_at # None /\ b.completed_at # None
          /\ Val(b.created_at) < Val(b.started_at)
          /\ Val(b.started_at) < Val(b.completed_at)
          /\ b.progress # None =>
                Val(b.progress).current_control = Val(b.progress).total_controls
    /\ b.status = "failed" =>
          /\ b.started_at # None /\ b.completed_at = None /\ b.error # None

C6_SingleRunPerJob ==
    \A j \in JobIds : Cardinality(ActiveRuns(j)) <= 1

\* an evaluate request arrived while the job's run was awaiting an evaluation
C6_Witness ==
    \E r \in RunIds :
        /\ runs[r].pc = "awaiting_evaluation"
        /\ response.op = "evaluate"
        /\ response.job_id = runs[r].job_id
        /\ response.status_code = 400
        /\ response.detail = AlreadyInProgress

\* C7: the status of a job of the table changes only from uploaded or failed
\* to processing and from processing to completed or failed, and a job leaves
\* the table only in a successful delete request for it.
StatusTransitions ==
    {<<"uploaded", "processing">>, <<"failed", "processing">>,
     <<"processing", "completed">>, <<"processing", "failed">>}

C7_StatusTransitions ==
    [][\A j \in job_storage :
         /\ (j \in job_storage' /\ job_obj'[j].status # job_obj[j].status)
               => <<job_obj[j].status, job_obj'[j].status>> \in StatusTransitions
         /\ j \notin job_storage'
               => /\ response'.op = "delete"
                  /\ response'.job_id = j
                  /\ response'.status_code = 200]_vars

\* a job that failed and is being processed again
C7_Witness ==
    \E j \in job_storage :
        /\ job_obj[j].status = "processing"
        /\ job_obj[j].failed_at # None

\* C8: an evaluate request on a completed job, whatever frameworks it names,
\* is answered 200 "already completed"; the step leaves the job's dictionary
\* (status, results, progress, frameworks, completed_at) as it was and
\* schedules no run.
C8_CompletedIsNoOp ==
    [][\A j \in JobIds, request \in EvaluationRequests :
         ( /\ j \in job_storage
           /\ job_obj[j].status = "completed"
           /\ start_evaluation(j, request.frameworks, request.max_controls) )
         => /\ response'.status_code = 200
            /\ response'.detail = AlreadyCompleted
            /\ Val(response'.body).status = "completed"
            /\ job_obj'[j] = job_obj[j]
            /\ runs' = runs]_vars

\* an evaluate request answered "already completed"
C8_Witness ==
    /\ response.op = "evaluate"
    /\ response.detail = AlreadyCompleted
    /\ job_obj[response.job_id].status = "completed"
    /\ job_obj[response.job_id].results # None

\* C9: the progress updates of a run count 1, 2, ..., total_controls within a
\* framework, with total_controls constant, and start again at 1 in the next
\* framework, which the run enters only after the update total_controls; the
\* job's progress is the last of them.
CountsUp(updates) ==
    \A k \in 1..Len(updates) :
        /\ updates[k].current_control \in 1..updates[k].total_controls
        /\ k = 1 => updates[k].current_control = 1
        /\ (k > 1 /\ updates[k].framework = updates[k - 1].framework) =>
              /\ updates[k].current_control = updates[k - 1].current_control + 1
              /\ updates[k].total_controls = updates[k - 1].total_controls
        /\ (k > 1 /\ updates[k].framework # updates[k - 1].framework) =>
              /\ updates[k].current_control = 1
              /\ updates[k - 1].current_control = updates[k - 1].total_controls

C9_ProgressCountsUp ==
    \A r \in RunIds :
        /\ CountsUp(runs[r].updates)
        /\ runs[r].updates # <<>> =>
              job_obj[JobOf(r)].progress =
                  Some(runs[r].updates[Len(runs[r].updates)])
        /\ (runs[r].pc = "stats" /\ runs[r].all_controls # <<>>) =>
              /\ runs[r].updates # <<>>
              /\ LET last == runs[r].updates[Len(runs[r].updates)]
                 IN  /\ last.framework = runs[r].frameworks[runs[r].fi]
                     /\ last.current_control = last.total_controls
                     /\ last.total_controls = Len(runs[r].all_controls)

\* a run that has counted through a framework of two controls and started the next
C9_Witness ==
    \E r \in RunIds :
        /\ Len(runs[r].updates) = 3
        /\ runs[r].updates[2].current_control = 2
        /\ runs[r].updates[3].current_control = 1

\* C10: the progress update current_control = k of a framework is made only
\* after the evaluation of its k-th control: the count of the run's last
\* update never exceeds the number of controls it has evaluated.
C10_ProgressAfterEvaluation ==
    \A r \in RunIds :
        (runs[r].pc \in {"evaluate", "awaiting_evaluation", "sleep"}) =>
            runs[r].updates[Len(runs[r].updates)].current_control
                <= Len(runs[r].evaluated_controls)

\* ====================================================== evaluate_control
(***************************************************************************)
(* One call of MultiLayerEvaluator.evaluate_control, the call that the run *)
(* awaits between run_evaluate and run_evaluation_done: it returns an      *)
(* evaluation, or it raises and run_evaluation_done takes its Raise        *)
(* branch.  The language model is an input: each model.ainvoke either      *)
(* raises or returns a text, and nothing is assumed about the text.        *)
(***************************************************************************)

\* ------------------------------------------------------------ JSON values
\* a key that the dictionary does not have, and the values a key can have;
\* relevance_score and confidence are counted in hundredths
Absent == [type |-> "absent"]
Null == [type |-> "null"]
Bool(b) == [type |-> "bool", b |-> b]
Number(n) == [type |-> "number", n |-> n]
Str(s) == [type |-> "string", s |-> s]

\* dict.get(key, default)
Get(value, default) == IF value = Absent THEN default ELSE value

\* `not value`
Not_Always(value) == TRUE
Not(value) ==
    CASE value.type = "bool" -> ~value.b
      [] value.type = "number" -> value.n = 0
      [] value.type = "string" -> value.s = ""
      [] OTHER -> TRUE

\* `value < n` and `value >= n` raise TypeError unless value is a number
Comparable(value) == value.type = "number"

\* ------------------------------------------------- the language model's texts
\* the JSON objects that the three models answer with: the keys that
\* evaluate_control reads, each absent, well typed or of another type
Layer1Payloads ==
    [is_relevant : {Absent, Bool(TRUE), Bool(FALSE)},
     relevance_score : {Absent, Number(10), Number(20), Number(90), Str("low")}]

Layer2Payloads ==
    [preliminary_score : {Absent, Number(0), Number(25), Number(80), Str("80%")}]

Layer3Payloads ==
    [final_score : {Absent, Number(30), Number(80), Null},
     compliance_status : {Absent, Str("mostly_compliant"), Str("partially_compliant")},
     confidence : {Absent, Number(90)}]

\* response.content: a JSON object on its own ("object"), inside a ``` fence
\* ("fenced"), a text that json.loads rejects ("unparsable"), or valid JSON
\* without braces, such as a list ("list")
Texts(payloads, nothing) ==
    {[form |-> form, payload |-> payload] :
        form \in {"object", "fenced"}, payload \in payloads}
    \cup {[form |-> form, payload |-> nothing] : form \in {"unparsable", "list"}}

NoPayload1 == [is_relevant |-> Absent, relevance_score |-> Absent]
NoPayload2 == [preliminary_score |-> Absent]
NoPayload3 == [final_score |-> Absent, compliance_status |-> Absent,
               confidence |-> Absent]

\* a value that is not a dictionary
NotADict == [type |-> "list"]

\* _parse_json_response: the fence and what surrounds the braces are cut off and
\* json.loads gives the object; a JSONDecodeError gives the dictionary
\* {"parse_error": True, "raw_response": ...}; JSON without braces is
\* returned as json.loads gives it
_parse_json_response(text) ==
    CASE text.form \in {"object", "fenced"} ->
            text.payload @@ [type |-> "dict", parse_error |-> FALSE, error |-> FALSE]
      [] text.form = "unparsable" ->
            text.payload @@ [type |-> "dict", parse_error |-> TRUE, error |-> FALSE]
      [] OTHER -> NotADict

\* ------------------------------------------------------- _score_to_status
_score_to_status_Exclusive(s) ==
    IF s >= 100 THEN "fully_compliant"
    ELSE IF s > 75 THEN "mostly_compliant"
    ELSE IF s > 50 THEN "partially_compliant"
    ELSE IF s > 25 THEN "minimally_compliant"
    ELSE "non_compliant"
_score_to_status(s) ==
    IF s >= 100 THEN "fully_compliant"
    ELSE IF s >= 75 THEN "mostly_compliant"
    ELSE IF s >= 50 THEN "partially_compliant"
    ELSE IF s >= 25 THEN "minimally_compliant"
    ELSE "non_compliant"

\* ------------------------------------------------------------ _call_llm
\* @retry(stop=stop_after_attempt(3), ...): every exception is retried, and
\* after the last attempt tenacity raises RetryError
stop_after_attempt == 3

\* one more model.ainvoke of layer n
Attempt(n) ==
    /\ attempts[n] < stop_after_attempt
    /\ attempts' = [attempts EXCEPT ![n] = @ + 1]

\* ------------------------------------------- the except clauses of the layers
Layer1Fallback_Relevant ==
    [type |-> "dict", is_relevant |-> Bool(TRUE), relevance_score |-> Number(0),
     parse_error |-> FALSE, error |-> TRUE]
Layer1Fallback ==
    [type |-> "dict", is_relevant |-> Bool(FALSE), relevance_score |-> Number(0),
     parse_error |-> FALSE, error |-> TRUE]

Layer2Fallback ==
    [type |-> "dict", preliminary_score |-> Number(0),
     parse_error |-> FALSE, error |-> TRUE]

\* the except clause of layer3_final_scoring builds its dictionary from
\* layer2_analysis.get("preliminary_score", 0); _score_to_status compares it
\* with 100 and raises TypeError when it is not a number
Layer3FallbackRaises(layer2) ==
    ~Comparable(Get(layer2.preliminary_score, Number(0)))

Layer3Fallback_Unscored(layer2) ==
    [type |-> "dict",
     final_score |-> Number(0),
     compliance_status |-> Str("non_compliant"),
     confidence |-> Number(50), parse_error |-> FALSE, error |-> TRUE]
Layer3Fallback(layer2) ==
    [type |-> "dict",
     final_score |-> Get(layer2.preliminary_score, Number(0)),
     compliance_status |->
        Str(_score_to_status(Get(layer2.preliminary_score, Number(0)).n)),
     confidence |-> Number(50), parse_error |-> FALSE, error |-> TRUE]

\* ------------------------------------------------------- evaluate_control
\* the test after layer 1,
\*   not layer1_result.get("is_relevant", False)
\*       and layer1_result.get("relevance_score", 0) < 0.2
\* gives "skip" or "analyse", or raises TypeError on a relevance_score that
\* is not a number; `and` does not evaluate the comparison when the first
\* operand is false
Layer1Verdict_Tenth(layer1) ==
    IF ~Not(Get(layer1.is_relevant, Bool(FALSE))) THEN "analyse"
    ELSE IF ~Comparable(Get(layer1.relevance_score, Number(0))) THEN "raise"
    ELSE IF Get(layer1.relevance_score, Number(0)).n < 10 THEN "skip"
    ELSE "analyse"
Layer1Verdict(layer1) ==
    IF ~Not(Get(layer1.is_relevant, Bool(FALSE))) THEN "analyse"
    ELSE IF ~Comparable(Get(layer1.relevance_score, Number(0))) THEN "raise"
    ELSE IF Get(layer1.relevance_score, Number(0)).n < 20 THEN "skip"
    ELSE "analyse"

\* the evaluation returned without layers 2 and 3; recommendations are given
\* by their priorities
SkippedEvaluation ==
    [final_score |-> Number(0),
     compliance_status |-> Str("non_compliant"),
     confidence |-> Number(80),
     recommendations |-> <<"critical">>,
     risk_level |-> "high",
     skipped_deeper_analysis |-> TRUE]

\* the evaluation combined from layer 3's dictionary; the texts drawn carry
\* no recommendations and no risk_level, so these two are the defaults of get
CombinedEvaluation(layer3) ==
    [final_score |-> Get(layer3.final_score, Number(0)),
     compliance_status |-> Get(layer3.compliance_status, Str("non_compliant")),
     confidence |-> Get(layer3.confidence, Number(50)),
     recommendations |-> <<>>,
     risk_level |-> "medium",
     skipped_deeper_analysis |-> FALSE]

\* evaluate_control is called and calls layer1_relevance_check
evaluate_control ==
    /\ stage = "idle"
    /\ stage' = "layer1"
    /\ invocations' = [invocations EXCEPT ![1] = @ + 1]
    /\ UNCHANGED <<attempts, retry_errors, layer1_result, layer2_result,
                   layer3_result, evaluation>>
    /\ UNCHANGED <<jvars, bvars, fvars, svars>>

\* layer1_relevance_check returns result, and evaluate_control goes on
layer1_return(result) ==
    /\ layer1_result' = Some(result)
    /\ CASE Layer1Verdict(result) = "raise" ->
                /\ stage' = "raised"
                /\ UNCHANGED <<invocations, evaluation>>
         [] Layer1Verdict(result) = "skip" ->
                /\ stage' = "returned"
                /\ evaluation' = Some(SkippedEvaluation)
                /\ UNCHANGED invocations
         [] OTHER ->
                /\ stage' = "layer2"
                /\ invocations' = [invocations EXCEPT ![2] = @ + 1]
                /\ UNCHANGED evaluation
    /\ UNCHANGED <<layer2_result, layer3_result>>

\* layer2_detailed_analysis returns result, and evaluate_control calls
\* layer3_final_scoring
layer2_return_FallbackEnds(result) ==
    /\ layer2_result' = Some(result)
    /\ IF result.error
       THEN /\ stage' = "returned"
            /\ evaluation' = Some(SkippedEvaluation)
            /\ UNCHANGED invocations
       ELSE /\ stage' = "layer3"
            /\ invocations' = [invocations EXCEPT ![3] = @ + 1]
            /\ UNCHANGED evaluation
    /\ UNCHANGED <<layer1_result, layer3_result>>
layer2_return(result) ==
    /\ layer2_result' = Some(result)
    /\ stage' = "layer3"
    /\ invocations' = [invocations EXCEPT ![3] = @ + 1]
    /\ UNCHANGED <<layer1_result, layer3_result, evaluation>>

\* layer3_final_scoring returns result, and evaluate_control returns
layer3_return(result) ==
    /\ layer3_result' = Some(result)
    /\ stage' = "returned"
    /\ evaluation' = Some(CombinedEvaluation(result))
    /\ UNCHANGED <<invocations, layer1_result, layer2_result>>

\* the except clause of layer3_final_scoring runs
layer3_except ==
    IF Layer3FallbackRaises(Val(layer2_result))
    THEN /\ stage' = "raised"
         /\ UNCHANGED <<invocations, layer1_result, layer2_result,
                        layer3_result, evaluation>>
    ELSE layer3_return(Layer3Fallback(Val(layer2_result)))

\* what model.ainvoke raises: failures that pass (the rate limit, a timeout,
\* the connection) and failures that do not (a key that is refused)
Exceptions ==
    {"RateLimitError", "APITimeoutError", "APIConnectionError",
     "AuthenticationError"}

\* an attempt of a layer's call raises: _call_llm prints the exception and
\* raises it again, and tenacity, which is given no retry condition, waits
\* and tries again whatever was raised, or after the last attempt raises
\* RetryError into the layer's except clause
layer1_call_raises(exception) ==
    /\ stage = "layer1"
    /\ Attempt(1)
    /\ IF attempts[1] + 1 = stop_after_attempt
       THEN /\ retry_errors' = retry_errors \cup {1}
            /\ layer1_return(Layer1Fallback)
       ELSE UNCHANGED <<stage, retry_errors, invocations, layer1_result,
                        layer2_result, layer3_result, evaluation>>
    /\ UNCHANGED <<jvars, bvars, fvars, svars>>

layer2_call_raises(exception) ==
    /\ stage = "layer2"
    /\ Attempt(2)
    /\ IF attempts[2] + 1 = stop_after_attempt
       THEN /\ retry_errors' = retry_errors \cup {2}
            /\ layer2_return(Layer2Fallback)
       ELSE UNCHANGED <<stage, retry_errors, invocations, layer1_result,
                        layer2_result, layer3_result, evaluation>>
    /\ UNCHANGED <<jvars, bvars, fvars, svars>>

layer3_call_raises(exception) ==
    /\ stage = "layer3"
    /\ Attempt(3)
    /\ IF attempts[3] + 1 = stop_after_attempt
       THEN /\ retry_errors' = retry_errors \cup {3}
            /\ layer3_except
       ELSE UNCHANGED <<stage, retry_errors, invocations, layer1_result,
                        layer2_result, layer3_result, evaluation>>
    /\ UNCHANGED <<jvars, bvars, fvars, svars>>

\* an attempt of a layer's call returns text: the layer parses it and sets
\* result["control_id"], which raises TypeError into the except clause when
\* the result is not a dictionary
layer1_call_returns(text) ==
    /\ stage = "layer1"
    /\ Attempt(1)
    /\ IF _parse_json_response(text) = NotADict
       THEN layer1_return(Layer1Fallback)
       ELSE layer1_return(_parse_json_response(text))
    /\ UNCHANGED <<retry_errors, jvars, bvars, fvars, svars>>

layer2_call_returns(text) ==
    /\ stage = "layer2"
    /\ Attempt(2)
    /\ IF _parse_json_response(text) = NotADict
       THEN layer2_return(Layer2Fallback)
       ELSE layer2_return(_parse_json_response(text))
    /\ UNCHANGED <<retry_errors, jvars, bvars, fvars, svars>>

layer3_call_returns(text) ==
    /\ stage = "layer3"
    /\ Attempt(3)
    /\ IF _parse_json_response(text) = NotADict
       THEN layer3_except
       ELSE layer3_return(_parse_json_response(text))
    /\ UNCHANGED <<retry_errors, jvars, bvars, fvars, svars>>

\* an evaluator exists, and nothing else happens during the call
InitEval ==
    /\ JobsIdle
    /\ evaluator = TRUE
    /\ EvaluatorIdle
    /\ BandIdle
    /\ AnalyzerIdle
    /\ StorageIdle

NextEval ==
    \/ evaluate_control
    \/ \E exception \in Exceptions : layer1_call_raises(exception)
    \/ \E text \in Texts(Layer1Payloads, NoPayload1) : layer1_call_returns(text)
    \/ \E exception \in Exceptions : layer2_call_raises(exception)
    \/ \E text \in Texts(Layer2Payloads, NoPayload2) : layer2_call_returns(text)
    \/ \E exception \in Exceptions : layer3_call_raises(exception)
    \/ \E text \in Texts(Layer3Payloads, NoPayload3) : layer3_call_returns(text)

SpecEval == InitEval /\ [][NextEval]_vars

\* ------------------------------------------- one call of _score_to_status
\* the scores of the scale
Scores == 0..100

InitBand ==
    /\ JobsIdle
    /\ evaluator = TRUE
    /\ EvaluatorIdle
    /\ score \in Scores
    /\ band = None
    /\ AnalyzerIdle
    /\ StorageIdle

band_score ==
    /\ band = None
    /\ band' = Some(_score_to_status(score))
    /\ UNCHANGED score
    /\ UNCHANGED <<jvars, evars, fvars, svars>>

NextBand == band_score

SpecBand == InitBand /\ [][NextBand]_vars

\* ========================================= claims about evaluate_control
\* layer 1's model answered with a JSON object that says is_relevant false and
\* gives a relevance_score below 0.2
ReportsIrrelevant(layer1) ==
    /\ ~layer1.error
    /\ ~layer1.parse_error
    /\ layer1.is_relevant = Bool(FALSE)
    /\ layer1.relevance_score.type = "number"
    /\ layer1.relevance_score.n < 20

\* C11: when layer 1 reports is_relevant false and a relevance_score below
\* 0.2, evaluate_control has returned: final_score 0, compliance_status
\* non_compliant, confidence 0.8, one recommendation, of priority critical,
\* risk_level high and skipped_deeper_analysis true; layers 2 and 3 were not
\* invoked and no call of theirs was attempted.
C11_IrrelevantSkipsDeeperAnalysis ==
    (layer1_result # None /\ ReportsIrrelevant(Val(layer1_result))) =>
        /\ stage = "returned"
        /\ evaluation # None
        /\ Val(evaluation).final_score = Number(0)
        /\ Val(evaluation).compliance_status = Str("non_compliant")
        /\ Val(evaluation).confidence = Number(80)
        /\ Val(evaluation).recommendations = <<"critical">>
        /\ Val(evaluation).risk_level = "high"
        /\ Val(evaluation).skipped_deeper_analysis
        /\ invocations[2] = 0 /\ invocations[3] = 0
        /\ attempts[2] = 0 /\ attempts[3] = 0

\* layer 1 said is_relevant false with relevance_score 0.1, and
\* evaluate_control returned
C11_Witness ==
    /\ layer1_result # None
    /\ ReportsIrrelevant(Val(layer1_result))
    /\ Val(layer1_result).relevance_score = Number(10)
    /\ stage = "returned"

\* C12: when layer 3's call ended in RetryError, evaluate_control returns an
\* evaluation whose final_score is layer 2's preliminary_score, whose
\* compliance_status is _score_to_status of it and whose confidence is 0.5;
\* and on every path evaluate_control returns, with a number as final_score
\* and a compliance_status.
C12_Layer3FallbackScores ==
    /\ stage # "raised"
    /\ stage = "returned" =>
            /\ Val(evaluation).final_score.type = "number"
            /\ Val(evaluation).compliance_status.type = "string"
    /\ 3 \in retry_errors =>
            /\ stage = "returned"
            /\ Val(evaluation).final_score =
                    Get(Val(layer2_result).preliminary_score, Number(0))
            /\ Val(evaluation).compliance_status =
                    Str(_score_to_status(Val(evaluation).final_score.n))
            /\ Val(evaluation).confidence = Number(50)

\* what layer n's method returned, None before it has
LayerResult(n) ==
    CASE n = 1 -> layer1_result
      [] n = 2 -> layer2_result
      [] OTHER -> layer3_result

TotalAttempts == attempts[1] + attempts[2] + attempts[3]

\* C13: no layer's call is attempted more than 3 times; a layer whose
\* attempts all failed returned its fallback (the dictionary of its except
\* clause) and evaluate_control did not abort; one evaluate_control makes at
\* most 9 attempts, and at most 3 when it returns without layers 2 and 3.
C13_AtMostThreeAttempts ==
    /\ \A n \in Layers : attempts[n] <= 3
    /\ \A n \in retry_errors :
            /\ attempts[n] = 3
            /\ stage # "raised"
            /\ LayerResult(n) # None
            /\ Val(LayerResult(n)).error
    /\ TotalAttempts <= 9
    /\ (stage = "returned" /\ Val(evaluation).skipped_deeper_analysis) =>
            TotalAttempts <= 3

\* C14: a failing attempt of the call of layer 1, 2 or 3, the last one of
\* the three included, never makes evaluate_control raise, so
\* run_evaluation_done never takes its Raise branch, and the job does not go
\* to failed, because a call failed.
C14_CallFailureNeverRaises ==
    [][(\E exception \in Exceptions :
            \/ layer1_call_raises(exception)
            \/ layer2_call_raises(exception)
            \/ layer3_call_raises(exception))
            => stage' # "raised"]_vars

\* C17: when the text of a layer's model cannot be parsed, the layer's result
\* is the parse_error dictionary of _parse_json_response, evaluate_control
\* does not raise, and the evaluation it returns has a confidence of at
\* most 0.5.
C17_UnparsableIsLowConfidence ==
    \A n \in Layers :
        (LayerResult(n) # None /\ Val(LayerResult(n)).parse_error) =>
            /\ Val(LayerResult(n)).type = "dict"
            /\ stage # "raised"
            /\ stage = "returned" =>
                    /\ Val(evaluation).confidence.type = "number"
                    /\ Val(evaluation).confidence.n <= 50

\* C18: every evaluation that evaluate_control returns, with or without
\* layers 2 and 3, and with layer 3's answer or its fallback, has the
\* compliance_status that _score_to_status gives for its final_score.
C18_StatusIsBandOfScore ==
    stage = "returned" =>
        /\ Val(evaluation).final_score.type = "number"
        /\ Val(evaluation).compliance_status =
                Str(_score_to_status(Val(evaluation).final_score.n))

\* ======================================== claims about _score_to_status
\* C19: _score_to_status gives every integer score from 0 to 100 one status:
\* fully_compliant for 100, mostly_compliant for 75 to 99,
\* partially_compliant for 50 to 74, minimally_compliant for 25 to 49 and
\* non_compliant for 0 to 24.
C19_BandsOfTheScale ==
    band # None =>
        /\ score = 100 => Val(band) = "fully_compliant"
        /\ score \in 75..99 => Val(band) = "mostly_compliant"
        /\ score \in 50..74 => Val(band) = "partially_compliant"
        /\ score \in 25..49 => Val(band) = "minimally_compliant"
        /\ score \in 0..24 => Val(band) = "non_compliant"
        /\ Val(band) \in {"fully_compliant", "mostly_compliant",
                          "partially_compliant", "minimally_compliant",
                          "non_compliant"}

\* the status of the score 75, the lowest that is mostly_compliant
C19_Witness ==
    /\ score = 75
    /\ band = Some("mostly_compliant")

\* ===================================== more claims about the job's status
\* C15: a job's status becomes failed only in a step of the except clause of
\* a run of that job, a run in which an exception was raised, and only from
\* processing; no request sets it.
C15_FailedOnlyByRun ==
    [][\A j \in JobIds :
         (job_obj'[j].status = "failed" /\ job_obj[j].status # "failed") =>
            /\ job_obj[j].status = "processing"
            /\ \E r \in RunIds :
                    /\ runs[r].job_id = j
                    /\ runs[r].pc = "except"
                    /\ runs[r].e # None
                    /\ runs'[r].pc = "except_error"]_vars

\* the except clause of a job's run has just set its status, after two
\* controls were evaluated
C15_Witness ==
    \E r \in RunIds :
        /\ runs[r].pc = "except_error"
        /\ runs[r].e # None
        /\ job_obj[runs[r].job_id].status = "failed"
        /\ Len(runs[r].evaluated_controls) = 2

\* some framework of the request is not indexed
NamesUnindexed(frameworks) ==
    \E k \in 1..Len(frameworks) : frameworks[k] \notin Indexes

\* C20 as stated: every evaluate request that names a framework that is not
\* indexed is answered with an error, leaves the job's dictionary (status,
\* frameworks, started_at, progress) as it was and schedules no run.
C20_UnindexedRejected ==
    [][\A j \in JobIds, request \in EvaluationRequests :
         ( /\ NamesUnindexed(request.frameworks)
           /\ start_evaluation(j, request.frameworks, request.max_controls) )
         => /\ response'.status_code >= 400
            /\ job_obj'[j] = job_obj[j]
            /\ runs' = runs]_vars

\* C20, amended: an evaluate request that names a framework that is not
\* indexed leaves the job's dictionary as it was and schedules no run, also
\* when it names indexed frameworks too; it is answered with an error (404
\* for an unknown job, 400 "already in progress" for a processing job, 400
\* "not available" with the framework for an uploaded or failed job), except
\* on a completed job, where it is answered 200 "already completed".
C20_UnindexedNeverStarts ==
    [][\A j \in JobIds, request \in EvaluationRequests :
         ( /\ NamesUnindexed(request.frameworks)
           /\ start_evaluation(j, request.frameworks, request.max_controls) )
         => /\ job_obj'[j] = job_obj[j]
            /\ runs' = runs
            /\ IF j \notin job_storage
               THEN response'.status_code = 404
               ELSE IF job_obj[j].status = "processing"
               THEN /\ response'.status_code = 400
                    /\ response'.detail = AlreadyInProgress
               ELSE IF job_obj[j].status = "completed"
               THEN /\ response'.status_code = 200
                    /\ response'.detail = AlreadyCompleted
               ELSE /\ response'.status_code = 400
                    /\ response'.detail = "Framework not available"
                    /\ Val(response'.body).framework \notin Indexes]_vars

\* a request that names nca_en and then cis_v8 was rejected on a job that had
\* failed before
C20_Witness ==
    /\ response.op = "evaluate"
    /\ response.status_code = 400
    /\ response.body = Some([framework |-> "cis_v8"])
    /\ job_obj[response.job_id].status = "failed"

\* an evaluation as _mock_evaluation gives it
NotEvaluated(e) ==
    /\ e.mock
    /\ e.final_score = 0
    /\ e.compliance_status = "not_evaluated"
    /\ e.confidence = 0

\* the controls of a framework result are those the repository lists for the
\* framework, cut as some request cuts them
AllControlsOf(framework_result) ==
    /\ Len(framework_result.controls) = framework_result.total_controls
    /\ \E request \in EvaluationRequests :
            [k \in 1..Len(framework_result.controls) |->
                    framework_result.controls[k].control_id]
                = Truncate(get_all_controls(framework_result.framework),
                           request.max_controls)

\* a step of run r
RunStep(r) ==
    \/ run_begin(r) \/ run_extract_text(r) \/ run_framework(r)
    \/ run_control(r) \/ run_progress_callback(r) \/ run_evaluate(r)
    \/ run_evaluation_done(r) \/ run_sleep_done(r) \/ run_stats(r)
    \/ run_summary(r) \/ run_set_status(r) \/ run_set_completed_at(r)
    \/ run_set_results(r) \/ run_except(r) \/ run_except_error(r)
    \/ run_except_failed_at(r)

\* the event loop resumes every coroutine that is ready: a scheduled task is
\* started, asyncio.sleep(0.1) ends, an awaited evaluate_control returns or
\* raises, and a coroutine that holds the loop goes on to its next await
SpecFair == Spec /\ \A r \in 1..MaxRuns : WF_vars(RunStep(r))

\* without an evaluator no run awaits evaluate_control (the only caller of
\* the language model); every evaluation of a run, and of a completed job's
\* results, is final_score 0, not_evaluated, confidence 0; a completed job's
\* results hold every control of every requested framework; a run raises
\* only before it has its results dictionary, in extract_text, and a job is
\* failed only without any progress
MockModeSafe ==
    ~evaluator =>
        /\ \A r \in RunIds :
                /\ runs[r].pc # "awaiting_evaluation"
                /\ \A k \in 1..Len(runs[r].evaluated_controls) :
                        NotEvaluated(runs[r].evaluated_controls[k])
                /\ runs[r].e # None => runs[r].results = None
                /\ runs[r].results # None =>
                        runs[r].pc \notin {"except", "except_error",
                                           "except_failed_at"}
        /\ \A j \in JobIds :
                /\ job_obj[j].status = "failed" => job_obj[j].progress = None
                /\ (job_obj[j].status = "completed" /\ job_obj[j].results # None) =>
                        /\ CompleteResults(job_obj[j].results,
                                           Val(job_obj[j].frameworks))
                        /\ \A x \in Val(job_obj[j].results).frameworks :
                                /\ AllControlsOf(x)
                                /\ \A k \in 1..Len(x.controls) :
                                        NotEvaluated(x.controls[k])

\* C16: without an evaluator a run makes no call of the language model,
\* every control of every requested framework gets final_score 0,
\* compliance_status not_evaluated and confidence 0, and a run whose
\* extraction succeeded goes on to set its job's status to completed.
C16_MockModeCompletes ==
    /\ []MockModeSafe
    /\ \A r \in 1..MaxRuns :
            (~evaluator /\ r \in RunIds /\ runs[r].pc = "framework")
                ~> ( /\ r \in RunIds
                     /\ runs[r].pc = "set_completed_at"
                     /\ job_obj[runs[r].job_id].status = "completed" )

\* without an evaluator a job is completed with the three controls of its
\* two frameworks
C16_Witness ==
    /\ ~evaluator
    /\ \E j \in job_storage :
            /\ job_obj[j].status = "completed"
            /\ job_obj[j].results # None
            /\ Val(Val(job_obj[j].results).summary).total_controls_evaluated = 3

\* ================================================================ job_storage.py
(***************************************************************************)
(* One storage object, as create_storage makes it: a FileJobStorage or a   *)
(* SupabaseJobStorage, its cache, what it has persisted, and its lock.     *)
(* One thread calls its methods, one call after the other; the process can *)
(* be restarted at any time, and every access to the disk or to Supabase   *)
(* either works or raises.  Of a job's keys the model keeps job_id,        *)
(* status, results, file_path and created_at.                              *)
(***************************************************************************)
StoreIds == {"a", "b"}

\* more values of a job dictionary: a pathlib.Path, a dictionary, and the
\* string of datetime.isoformat(), given by its day
PathValue(s) == [type |-> "path", s |-> s]
Dict(items) == [type |-> "dict", items |-> items]
Iso(day) == [type |-> "string", s |-> "isoformat", day |-> day]

\* bool(value)
Truthy(value) ==
    CASE value.type \in {"null", "absent"} -> FALSE
      [] value.type = "bool" -> value.b
      [] value.type = "number" -> value.n # 0
      [] value.type = "string" -> value.s # ""
      [] value.type = "dict" -> DOMAIN value.items # {}
      [] OTHER -> TRUE

\* the job dictionaries that callers store, and the updates they make: an
\* uploaded job of day 1 whose file_path is a Path, a completed job of day 39
\* with results, and the completion of a job
ResultsValue == Dict([overall_score |-> Number(57)])

JobInputs(j) ==
    {[job_id |-> Str(j), status |-> Str("uploaded"), results |-> Null,
      file_path |-> PathValue("uploads/policy.txt"), created_at |-> Iso(1)],
     [job_id |-> Str(j), status |-> Str("completed"), results |-> ResultsValue,
      file_path |-> Str("uploads/policy.txt"), created_at |-> Iso(39)]}

Updates == {[status |-> Str("completed"), results |-> ResultsValue]}

\* datetime.utcnow() is day 40; cutoff = datetime.utcnow() - timedelta(days=days)
utcnow == Iso(40)
Cutoff(days) == Iso(utcnow.day - days)

\* dictionaries as functions: d[k] = v, d.update(updates), and del d[k] for the
\* keys of a set
Put(d, k, v) == [x \in DOMAIN d \cup {k} |-> IF x = k THEN v ELSE d[x]]
Update(d, updates) ==
    [x \in DOMAIN d |-> IF x \in DOMAIN updates THEN updates[x] ELSE d[x]]
Remove(d, keys) == [x \in DOMAIN d \ keys |-> d[x]]

\* FileJobStorage._make_serializable
RECURSIVE _make_serializable(_)
_make_serializable(obj) ==
    CASE obj.type = "dict" ->
            Dict([k \in DOMAIN obj.items |-> _make_serializable(obj.items[k])])
      [] obj.type \in {"string", "number", "bool", "null"} -> obj
      [] obj.type = "path" -> Str(obj.s)
      [] OTHER -> Str("str(obj)")

\* _save_job_to_disk writes json.dump(_make_serializable(job_data)), and
\* _load_all_jobs reads it with json.load: a job dictionary is a dict of
\* str keys, and JSON gives back the strings, numbers, nulls and
\* dictionaries it is given
FileContent(job_data) ==
    [k \in DOMAIN job_data |-> _make_serializable(job_data[k])]

\* SupabaseJobStorage._job_to_row
_job_to_row_NoResults(job_data) ==
    [job_id |-> job_data.job_id,
     status |-> Get(job_data.status, Str("uploaded")),
     file_path |-> IF Truthy(job_data.file_path)
                   THEN Str(job_data.file_path.s) ELSE Null,
     results |-> Null,
     updated_at |-> utcnow,
     created_at |-> IF Truthy(job_data.created_at)
                    THEN job_data.created_at ELSE Absent]
_job_to_row(job_data) ==
    [job_id |-> job_data.job_id,
     status |-> Get(job_data.status, Str("uploaded")),
     file_path |-> IF Truthy(job_data.file_path)
                   THEN Str(job_data.file_path.s) ELSE Null,
     results |-> job_data.results,
     updated_at |-> utcnow,
     created_at |-> IF Truthy(job_data.created_at)
                    THEN job_data.created_at ELSE Absent]

\* SupabaseJobStorage._row_to_job
_row_to_job(row) ==
    [job_id |-> Get(row.job_id, Null),
     status |-> Get(row.status, Str("uploaded")),
     file_path |-> Get(row.file_path, Null),
     results |-> Get(row.results, Null),
     created_at |-> Get(row.created_at, Null)]

\* a call that has returned: its arguments, what it returned, whether it
\* asked Supabase for the job (get), and whether it printed the exception of
\* the disk or of Supabase that it caught
Returned(op, arguments, result, consulted, printed) ==
    [op |-> op, pc |-> "returned", args |-> arguments, jobs_to_delete |-> <<>>,
     result |-> result, consulted |-> consulted, printed |-> printed]

\* the thread can make its next call
Callable == IF call.op = "none" THEN TRUE ELSE call.pc = "returned"

\* ------------------------------------------------------------- FileJobStorage
\* set: the cache, then _save_job_to_disk, which catches what the disk raises
file_set(j, job_data, raises) ==
    /\ backend = "file"
    /\ Callable
    /\ _cache' = Put(_cache, j, job_data)
    /\ table' = IF raises THEN table ELSE Put(table, j, FileContent(job_data))
    /\ call' = Returned("set", <<j, job_data>>, None, FALSE, raises)
    /\ UNCHANGED <<backend, _lock>>
    /\ UNCHANGED <<jvars, evars, bvars, fvars>>

file_get(j) ==
    /\ backend = "file"
    /\ Callable
    /\ call' = Returned("get", <<j>>,
                        IF j \in DOMAIN _cache THEN Some(_cache[j]) ELSE None,
                        FALSE, FALSE)
    /\ UNCHANGED <<backend, _cache, table, _lock>>
    /\ UNCHANGED <<jvars, evars, bvars, fvars>>

file_update(j, updates, raises) ==
    /\ backend = "file"
    /\ Callable
    /\ IF j \in DOMAIN _cache
       THEN /\ _cache' = Put(_cache, j, Update(_cache[j], updates))
            /\ table' = IF raises THEN table
                        ELSE Put(table, j, FileContent(Update(_cache[j], updates)))
       ELSE UNCHANGED <<_cache, table>>
    /\ call' = Returned("update", <<j, updates>>, None, FALSE,
                        raises /\ j \in DOMAIN _cache)
    /\ UNCHANGED <<backend, _lock>>
    /\ UNCHANGED <<jvars, evars, bvars, fvars>>

\* the body of delete, under the lock
FileDelete(j, raises) ==
    /\ _cache' = Remove(_cache, {j})
    /\ table' = IF raises THEN table ELSE Remove(table, {j})

file_delete(j, raises) ==
    /\ backend = "file"
    /\ Callable
    /\ FileDelete(j, raises)
    /\ call' = Returned("delete", <<j>>, None, FALSE, raises)
    /\ UNCHANGED <<backend, _lock>>
    /\ UNCHANGED <<jvars, evars, bvars, fvars>>

\* the jobs that cleanup_old_jobs finds: created_at is there and is before
\* the cutoff
IsOld(job_data, days) ==
    /\ Truthy(job_data.created_at)
    /\ job_data.created_at.day < Cutoff(days).day

\* a set as a list, in some order
RECURSIVE ListOf(_)
ListOf(set) ==
    IF set = {} THEN <<>>
    ELSE LET x == CHOOSE y \in set : TRUE
         IN  <<x>> \o ListOf(set \ {x})

\* cleanup_old_jobs takes self._lock and collects jobs_to_delete
file_cleanup_old_jobs(days) ==
    /\ backend = "file"
    /\ Callable
    /\ _lock' = "cleanup_old_jobs"
    /\ call' = [op |-> "cleanup_old_jobs", pc |-> "for", args |-> <<days>>,
                jobs_to_delete |->
                    ListOf({j \in DOMAIN _cache : IsOld(_cache[j], days)}),
                result |-> None, consulted |-> FALSE, printed |-> FALSE]
    /\ UNCHANGED <<backend, _cache, table>>
    /\ UNCHANGED <<jvars, evars, bvars, fvars>>

\* threading.Lock is not reentrant: `with self._lock` goes on only when no
\* one holds the lock, the thread itself included
Acquirable(lock) == lock = "free"

\* for job_id in jobs_to_delete: self.delete(job_id), whose `with self._lock`
\* waits while the lock is held; after the loop the lock is released and
\* len(jobs_to_delete) returned.  call.result counts the deletions done.
file_cleanup_for(raises) ==
    /\ backend = "file"
    /\ call.op = "cleanup_old_jobs"
    /\ call.pc = "for"
    /\ LET done == IF call.result = None THEN 0 ELSE Val(call.result)
       IN  IF done = Len(call.jobs_to_delete)
           THEN /\ call' = Returned("cleanup_old_jobs", call.args,
                                    Some(Len(call.jobs_to_delete)), FALSE,
                                    call.printed)
                /\ _lock' = "free"
                /\ UNCHANGED <<_cache, table>>
           ELSE IF Acquirable(_lock)
           THEN /\ FileDelete(call.jobs_to_delete[done + 1], raises)
                /\ call' = [call EXCEPT !.result = Some(done + 1),
                                         !.printed = @ \/ raises]
                /\ UNCHANGED _lock
           ELSE /\ call' = [call EXCEPT !.pc = "waiting"]
                /\ UNCHANGED <<_cache, table, _lock>>
    /\ UNCHANGED backend
    /\ UNCHANGED <<jvars, evars, bvars, fvars>>

\* the process starts again: __init__ loads every <job_id>.json into the
\* cache, under the job_id that the file holds
file_restart ==
    /\ backend = "file"
    /\ call.op # "none"
    /\ _cache' = [j \in {table[f].job_id.s : f \in DOMAIN table} |->
                    table[CHOOSE f \in DOMAIN table : table[f].job_id.s = j]]
    /\ _lock' = "free"
    /\ call' = [op |-> "none"]
    /\ UNCHANGED <<backend, table>>
    /\ UNCHANGED <<jvars, evars, bvars, fvars>>

\* --------------------------------------------------------- SupabaseJobStorage
\* upsert(row): the table keeps a column that the row does not give, and
\* created_at is NOW() in a new row that gives none
Upsert(rows, row) ==
    LET k == row.job_id.s
        created_at == IF row.created_at # Absent THEN row.created_at
                      ELSE IF k \in DOMAIN rows THEN rows[k].created_at
                      ELSE utcnow
    IN  Put(rows, k, [row EXCEPT !.created_at = created_at])

\* set: the cache, then the upsert, whose exception is caught and printed
supabase_set(j, job_data, raises) ==
    /\ backend = "supabase"
    /\ Callable
    /\ _cache' = Put(_cache, j, job_data)
    /\ table' = IF raises THEN table ELSE Upsert(table, _job_to_row(job_data))
    /\ call' = Returned("set", <<j, job_data>>, None, FALSE, raises)
    /\ UNCHANGED <<backend, _lock>>
    /\ UNCHANGED <<jvars, evars, bvars, fvars>>

\* if job_id in self._cache, the first test of get
InCache_Never(j) == FALSE
InCache(j) == j \in DOMAIN _cache

\* get: the cache first; Supabase is asked only for a job the cache lacks,
\* and a row it gives is cached; the exception of the select is passed over
supabase_get(j, raises) ==
    /\ backend = "supabase"
    /\ Callable
    /\ IF InCache(j)
       THEN /\ call' = Returned("get", <<j>>, Some(_cache[j]), FALSE, FALSE)
            /\ UNCHANGED _cache
       ELSE IF ~raises /\ j \in DOMAIN table
       THEN /\ _cache' = Put(_cache, j, _row_to_job(table[j]))
            /\ call' = Returned("get", <<j>>, Some(_row_to_job(table[j])),
                                TRUE, FALSE)
       ELSE /\ call' = Returned("get", <<j>>, None, TRUE, FALSE)
            /\ UNCHANGED _cache
    /\ UNCHANGED <<backend, table, _lock>>
    /\ UNCHANGED <<jvars, evars, bvars, fvars>>

\* update: only a cached job; the cache, then update(update_row).eq(job_id),
\* which changes the row when there is one
supabase_update(j, updates, raises) ==
    /\ backend = "supabase"
    /\ Callable
    /\ IF j \in DOMAIN _cache
       THEN /\ _cache' = Put(_cache, j, Update(_cache[j], updates))
            /\ table' = IF raises \/ j \notin DOMAIN table THEN table
                        ELSE Put(table, j,
                                 [Update(table[j], updates)
                                    EXCEPT !.updated_at = utcnow])
       ELSE UNCHANGED <<_cache, table>>
    /\ call' = Returned("update", <<j, updates>>, None, FALSE,
                        raises /\ j \in DOMAIN _cache)
    /\ UNCHANGED <<backend, _lock>>
    /\ UNCHANGED <<jvars, evars, bvars, fvars>>

supabase_delete(j, raises) ==
    /\ backend = "supabase"
    /\ Callable
    /\ _cache' = Remove(_cache, {j})
    /\ table' = IF raises THEN table ELSE Remove(table, {j})
    /\ call' = Returned("delete", <<j>>, None, FALSE, raises)
    /\ UNCHANGED <<backend, _lock>>
    /\ UNCHANGED <<jvars, evars, bvars, fvars>>

\* cleanup_old_jobs: the cached jobs whose created_at string is before the
\* cutoff's are deleted and counted, then delete().lt("created_at", cutoff)
supabase_cleanup_old_jobs(days, raises) ==
    /\ backend = "supabase"
    /\ Callable
    /\ LET jobs_to_delete == {j \in DOMAIN _cache : IsOld(_cache[j], days)}
       IN  /\ _cache' = Remove(_cache, jobs_to_delete)
           /\ table' = IF raises THEN table
                       ELSE Remove(table, {k \in DOMAIN table :
                                   table[k].created_at.day < Cutoff(days).day})
           /\ call' = Returned("cleanup_old_jobs", <<days>>,
                               Some(Cardinality(jobs_to_delete)), FALSE, raises)
    /\ UNCHANGED <<backend, _lock>>
    /\ UNCHANGED <<jvars, evars, bvars, fvars>>

\* the process starts again: the first call's _ensure_table loads every row
\* into the empty cache, unless Supabase raises
supabase_restart(raises) ==
    /\ backend = "supabase"
    /\ call.op # "none"
    /\ _cache' = IF raises THEN <<>>
                 ELSE [j \in DOMAIN table |-> _row_to_job(table[j])]
    /\ _lock' = "free"
    /\ call' = [op |-> "none"]
    /\ UNCHANGED <<backend, table>>
    /\ UNCHANGED <<jvars, evars, bvars, fvars>>

\* timedelta(days): the default of cleanup_old_jobs
Days == {30}

\* create_storage: Supabase when its credentials are set, files otherwise
InitStore ==
    /\ JobsIdle /\ EvaluatorIdle /\ BandIdle /\ AnalyzerIdle
    /\ backend \in {"file", "supabase"}
    /\ _cache = <<>>
    /\ table = <<>>
    /\ _lock = "free"
    /\ call = [op |-> "none"]

NextStore ==
    \/ \E j \in StoreIds, raises \in BOOLEAN :
        \/ \E job_data \in JobInputs(j) :
            \/ file_set(j, job_data, raises)
            \/ supabase_set(j, job_data, raises)
        \/ \E updates \in Updates :
            \/ file_update(j, updates, raises)
            \/ supabase_update(j, updates, raises)
        \/ file_get(j)
        \/ supabase_get(j, raises)
        \/ file_delete(j, raises)
        \/ supabase_delete(j, raises)
    \/ \E days \in Days, raises \in BOOLEAN :
        \/ file_cleanup_old_jobs(days)
        \/ supabase_cleanup_old_jobs(days, raises)
    \/ \E raises \in BOOLEAN :
        \/ file_cleanup_for(raises)
        \/ supabase_restart(raises)
    \/ file_restart

SpecStore == InitStore /\ [][NextStore]_vars

\* C21: cleanup_old_jobs comes back, and when it has, the cache holds no job
\* older than the cutoff: the call never waits for a lock that its own thread
\* holds.
C21_CleanupReturns ==
    call.op = "cleanup_old_jobs" =>
        /\ call.pc # "waiting"
        /\ call.pc = "returned" =>
            \A j \in DOMAIN _cache : \A days \in Days : ~IsOld(_cache[j], days)

\* C22: a set or an update whose write to the disk or to Supabase raised has
\* returned, with the exception printed and the new value in the cache, and
\* the get of the same job that follows it returns the cached value without
\* asking Supabase and leaves what is persisted as it is.
FailedWrite ==
    /\ call.op \in {"set", "update"}
    /\ call.printed

C22_CacheHoldsFailedWrite ==
    FailedWrite =>
        /\ call.pc = "returned"
        /\ call.args[1] \in DOMAIN _cache
        /\ call.op = "set" => _cache[call.args[1]] = call.args[2]
        /\ call.op = "update" =>
            \A k \in DOMAIN call.args[2] :
                _cache[call.args[1]][k] = call.args[2][k]

C22_GetFromCache ==
    (/\ FailedWrite
     /\ call'.op = "get"
     /\ call'.args = <<call.args[1]>>)
    => /\ call'.pc = "returned"
       /\ call'.result = Some(_cache[call.args[1]])
       /\ ~call'.consulted
       /\ UNCHANGED <<_cache, table>>

C22_CacheIsAuthoritative ==
    /\ []C22_CacheHoldsFailedWrite
    /\ [][C22_GetFromCache]_vars

\* a get has answered from the cache after a write to Supabase that raised,
\* while Supabase still holds an older row of the job
C22_Witness ==
    /\ backend = "supabase"
    /\ call.op = "get"
    /\ ~call.consulted
    /\ call.result # None
    /\ call.args[1] \in DOMAIN table
    /\ _row_to_job(table[call.args[1]]).status # Val(call.result).status

\* what set persists of a job, and what a restart loads from it
Persisted(job_data) ==
    IF backend = "file" THEN FileContent(job_data) ELSE _job_to_row(job_data)
Reloaded(stored) ==
    IF backend = "file" THEN stored ELSE _row_to_job(stored)

\* a restart that loaded what was persisted
Restart == file_restart \/ supabase_restart(FALSE)

\* C23: a job that is persisted as the cache holds it comes back from a
\* restart with the status and the results of the in-memory original.
C23_StatusAndResultsRoundTrip ==
    Restart =>
        \A j \in DOMAIN _cache :
            (j \in DOMAIN table /\ table[j] = Persisted(_cache[j]))
            => /\ j \in DOMAIN _cache'
               /\ _cache'[j].status = _cache[j].status
               /\ _cache'[j].results = _cache[j].results

InControlLoop(run) ==
    run.pc \in {"control", "progress_callback", "evaluate", "awaiting_evaluation",
                "sleep", "stats"}

\* the evaluations that have returned are those of the first n controls of
\* the framework, in order
ReturnedExactly(run, n) ==
    /\ Len(run.evaluated_controls) = n
    /\ n <= Len(run.all_controls)
    /\ \A k \in 1..n : run.evaluated_controls[k].control_id = run.all_controls[k]

\* the frameworks before fi, and no other, have their result, each with every
\* one of its controls evaluated
EarlierFrameworksFinished(run) ==
    /\ {x.framework : x \in Val(run.results).frameworks}
            = {run.frameworks[k] : k \in 1..(run.fi - 1)}
    /\ \A x \in Val(run.results).frameworks :
            Len(x.controls) = x.total_controls

\* C24: in a run the evaluation of control i + 1 is started, and is in flight,
\* only when exactly the evaluations of the i controls before it have
\* returned; a framework is worked on only when every framework before it has
\* its complete result; so a run has at most one evaluation, and one external
\* call, in flight.
C24_OneEvaluationAtATime ==
    \A r \in RunIds :
        /\ InControlLoop(runs[r]) =>
            /\ runs[r].fi \in 1..Len(runs[r].frameworks)
            /\ EarlierFrameworksFinished(runs[r])
            /\ ReturnedExactly(runs[r],
                               IF runs[r].pc = "sleep" THEN runs[r].i + 1
                               ELSE runs[r].i)
            /\ runs[r].pc = "stats" => runs[r].i = Len(runs[r].all_controls)
        /\ runs[r].pc \in {"framework", "summary"} =>
            EarlierFrameworksFinished(runs[r])

\* the second control of a framework is being evaluated, and another run is
\* waiting for the evaluation of a control of its second framework
C24_Witness ==
    \E r, q \in RunIds :
        /\ runs[r].pc = "awaiting_evaluation"
        /\ runs[r].i = 1
        /\ runs[q].pc = "awaiting_evaluation"
        /\ runs[q].fi = 2

\* ----------------------------------------------------------- max_controls
\* evaluate requests with max_controls set: 0, fewer controls than a framework
\* has, as many, and more
BoundedRequests ==
    {[frameworks |-> <<"nca_en", "nist_en">>, max_controls |-> Some(n)] :
        n \in 0..3}

NextMaxControls ==
    \/ \E filename \in Filenames : upload_document(filename)
    \/ \E j \in JobIds, request \in BoundedRequests :
            start_evaluation(j, request.frameworks, request.max_controls)
    \/ \E r \in 1..MaxRuns : run_begin(r)
    \/ \E r \in 1..MaxRuns : run_extract_text(r)
    \/ \E r \in 1..MaxRuns : run_framework(r)
    \/ \E r \in 1..MaxRuns : run_control(r)
    \/ \E r \in 1..MaxRuns : run_progress_callback(r)
    \/ \E r \in 1..MaxRuns : run_evaluate(r)
    \/ \E r \in 1..MaxRuns : run_evaluation_done(r)
    \/ \E r \in 1..MaxRuns : run_sleep_done(r)
    \/ \E r \in 1..MaxRuns : run_stats(r)
    \/ \E r \in 1..MaxRuns : run_summary(r)
    \/ \E r \in 1..MaxRuns : run_set_status(r)
    \/ \E r \in 1..MaxRuns : run_set_completed_at(r)
    \/ \E r \in 1..MaxRuns : run_set_results(r)
    \/ \E r \in 1..MaxRuns : run_except(r)
    \/ \E r \in 1..MaxRuns : run_except_error(r)
    \/ \E r \in 1..MaxRuns : run_except_failed_at(r)

SpecMaxControls == Init /\ [][NextMaxControls]_vars

\* the first min(n, number of controls) controls of a framework
FirstControls(framework, n) ==
    LET controls == get_all_controls(framework)
    IN  SubSeq(controls, 1, IF n < Len(controls) THEN n ELSE Len(controls))

\* the progress updates a run has made for a framework
RECURSIVE UpdatesFor(_, _)
UpdatesFor(updates, framework) ==
    IF updates = <<>> THEN 0
    ELSE (IF Head(updates).framework = framework THEN 1 ELSE 0)
         + UpdatesFor(Tail(updates), framework)

\* C25: a run whose max_controls is n works, in each framework, on the first
\* min(n, number of controls) controls in repository order; when the
\* framework is done it has made that many progress updates for it, and the
\* framework's total_controls is that number.
C25_FirstMinControls ==
    \A r \in RunIds :
        (runs[r].max_controls # None /\ InControlLoop(runs[r])) =>
            LET framework == runs[r].frameworks[runs[r].fi]
                expected == FirstControls(framework, Val(runs[r].max_controls))
            IN  /\ runs[r].all_controls = expected
                /\ runs[r].pc = "stats" =>
                        UpdatesFor(runs[r].updates, framework) = Len(expected)
                /\ \A x \in Val(runs[r].results).frameworks :
                        x.total_controls =
                            Len(FirstControls(x.framework,
                                              Val(runs[r].max_controls)))

\* ================================================== analyzer.py: aggregation
(***************************************************************************)
(* The methods of ComplianceAnalyzer that compute without awaiting: args is *)
(* the method and its arguments of one call, ret what the call returned.    *)
(* Scores are whole numbers of 0..100; an average rounded to one decimal is *)
(* given in tenths.                                                         *)
(***************************************************************************)
\* round(total / count, 1) in tenths: Python rounds the float to the nearest
\* tenth, a tie (a quotient ending in .25 or .75, which a float holds exactly)
\* to the even one
Round1(total, count) ==
    LET q == (10 * total) \div count
        rem == (10 * total) % count
    IN  IF 2 * rem > count THEN q + 1
        ELSE IF 2 * rem < count THEN q
        ELSE IF q % 2 = 0 THEN q ELSE q + 1

\* sum(scores)
RECURSIVE Sum(_)
Sum(scores) == IF scores = <<>> THEN 0 ELSE Head(scores) + Sum(Tail(scores))

\* _score_to_percentage_label, of the average total / count
_score_to_percentage_label(total, count) ==
    IF total >= 90 * count THEN "Excellent"
    ELSE IF total >= 75 * count THEN "Good"
    ELSE IF total >= 50 * count THEN "Fair"
    ELSE IF total >= 25 * count THEN "Poor"
    ELSE "Critical"

\* list.sort(key) and sorted(list, key) on <<key, item>> pairs: ascending in
\* the key, items of equal key in the order they had (the sort is stable)
InsertLast(sorted, pair) ==
    LET n == Cardinality({i \in 1..Len(sorted) : sorted[i][1] <= pair[1]})
    IN  SubSeq(sorted, 1, n) \o <<pair>> \o SubSeq(sorted, n + 1, Len(sorted))

RECURSIVE Sorted(_)
Sorted(pairs) ==
    IF pairs = <<>> THEN <<>>
    ELSE InsertLast(Sorted(SubSeq(pairs, 1, Len(pairs) - 1)), pairs[Len(pairs)])

\* list[:n]
FirstOf(list, n) == SubSeq(list, 1, Min(n, Len(list)))

\* ---------------------------------------------------------- _generate_summary
\* the controls in the order of the two loops: for framework, result in
\* framework_results.items(): for control in result.get("controls", [])
RECURSIVE Encountered(_)
Encountered(framework_results) ==
    IF framework_results = <<>> THEN <<>>
    ELSE LET result == Head(framework_results)
         IN  [k \in 1..Len(result.controls) |->
                [framework |-> result.framework, control |-> result.controls[k]]]
             \o Encountered(Tail(framework_results))

\* if rec.get("priority") in ["critical", "high"]
HighPriority_CriticalOnly(rec) == rec.priority = "critical"
HighPriority(rec) == rec.priority \in {"critical", "high"}

\* all_recommendations: the recommendations of high priority of each control,
\* each with the control_id and the framework of its control
RECURSIVE CollectRecommendations(_)
CollectRecommendations(encountered) ==
    IF encountered = <<>> THEN <<>>
    ELSE LET e1 == Head(encountered)
             recs == e1.control.recommendations
             tagged == [m \in 1..Len(recs) |->
                          [priority |-> recs[m].priority,
                           recommendation |-> recs[m].recommendation,
                           control_id |-> e1.control.control_id,
                           framework |-> e1.framework]]
         IN  SelectSeq(tagged, HighPriority)
             \o CollectRecommendations(Tail(encountered))

\* if score < 25
IsCriticalGap_AtMost25(final_score) == final_score <= 25
IsCriticalGap(final_score) == final_score < 25

\* critical_gaps, before the cut
CollectGaps(encountered) ==
    LET gaps == SelectSeq(encountered,
                          LAMBDA e1 : IsCriticalGap(e1.control.final_score))
    IN  [k \in 1..Len(gaps) |->
            [control_id |-> gaps[k].control.control_id,
             framework |-> gaps[k].framework,
             score |-> gaps[k].control.final_score,
             risk_level |-> gaps[k].control.risk_level]]

\* the key of the sort of top_recommendations
PriorityRank(priority) ==
    CASE priority = "critical" -> 0
      [] priority = "high" -> 1
      [] priority = "medium" -> 2
      [] priority = "low" -> 3
      [] OTHER -> 4

_generate_summary(framework_results) ==
    LET encountered == Encountered(framework_results)
        all_scores == [k \in 1..Len(encountered) |->
                            encountered[k].control.final_score]
        all_recommendations == CollectRecommendations(encountered)
        critical_gaps == CollectGaps(encountered)
        count == Len(all_scores)
        sorted == Sorted([k \in 1..Len(all_recommendations) |->
                            <<PriorityRank(all_recommendations[k].priority),
                              all_recommendations[k]>>])
    IN  [overall_score |-> IF count = 0 THEN 0 ELSE Round1(Sum(all_scores), count),
         overall_status |-> IF count = 0 THEN "Critical"
                            ELSE _score_to_percentage_label(Sum(all_scores), count),
         total_controls_evaluated |-> count,
         frameworks_analyzed |-> [k \in 1..Len(framework_results) |->
                                    framework_results[k].framework],
         critical_gaps |-> FirstOf(critical_gaps, 10),
         top_recommendations |->
            FirstOf([k \in 1..Len(sorted) |-> sorted[k][2]], 15)]

\* the framework results that are summarised: per framework 0, 1 or 8
\* controls, numbered in order; the scores and the recommendations of the
\* controls go through a pattern, and the recommendations of a control are
\* numbered in order
ScorePatterns == {<<0>>, <<25, 24>>, <<80, 10, 50>>}
PriorityPatterns ==
    {<<>>, <<"high", "critical">>,
     <<"medium", "critical", "low", "high", "urgent">>}

Cycle(pattern, k) == pattern[((k - 1) % Len(pattern)) + 1]

ControlsLike(n, scores, priorities) ==
    [k \in 1..n |->
        [control_id |-> k,
         final_score |-> Cycle(scores, k),
         risk_level |-> IF Cycle(scores, k) < 50 THEN "high" ELSE "low",
         recommendations |->
            [m \in 1..Len(priorities) |->
                [priority |-> Cycle(priorities, m + k - 1), recommendation |-> m]]]]

FrameworkResultsLike(framework) ==
    {[framework |-> framework, controls |-> ControlsLike(n, scores, priorities)] :
        n \in {0, 1, 8}, scores \in ScorePatterns, priorities \in PriorityPatterns}

SummaryInputs ==
    {<<nca, nist>> : nca \in FrameworkResultsLike("nca_en"),
                     nist \in FrameworkResultsLike("nist_en")}

generate_summary ==
    /\ args # None
    /\ Val(args).method = "_generate_summary"
    /\ ret = None
    /\ ret' = Some(_generate_summary(Val(args).framework_results))
    /\ UNCHANGED <<args, jvars, evars, bvars, svars>>

\* ------------------------------------------------- _calculate_framework_stats
\* d.get(key, default) of a dictionary given as a record
DictGet(d, key, default) == IF key \in DOMAIN d THEN d[key] ELSE default

\* the images of a list, and how many of its entries have a value
Range(list) == {list[k] : k \in DOMAIN list}
Count(list, value) == Cardinality({k \in DOMAIN list : list[k] = value})

\* sum(1 for s in scores if s < 50)
NeedsAttention_AtMost50(s) == s <= 50
NeedsAttention(s) == s < 50

_calculate_framework_stats(evaluated_controls) ==
    LET total == Len(evaluated_controls)
        scores == [k \in 1..total |->
                      DictGet(evaluated_controls[k], "final_score", 0)]
        statuses == [k \in 1..total |->
                      DictGet(evaluated_controls[k], "compliance_status",
                              "non_compliant")]
        risks == [k \in 1..total |->
                      DictGet(evaluated_controls[k], "risk_level", "unknown")]
        status_counts == [status \in Range(statuses) |-> Count(statuses, status)]
        risk_counts == [risk \in Range(risks) |-> Count(risks, risk)]
    IN  IF total = 0 THEN [error |-> "No controls evaluated"]
        ELSE [total_controls |-> total,
              average_score |-> Round1(Sum(scores), total),
              overall_compliance |-> _score_to_percentage_label(Sum(scores), total),
              status_breakdown |-> status_counts,
              risk_breakdown |-> risk_counts,
              fully_compliant_count |-> DictGet(status_counts, "fully_compliant", 0),
              non_compliant_count |-> DictGet(status_counts, "non_compliant", 0),
              needs_attention |->
                  Cardinality({k \in 1..total : NeedsAttention(scores[k])})]

\* the evaluations of which statistics are made: lists of up to 4 of these
\* evaluations, one of them without score, status and risk level
EvaluationsLike ==
    {[final_score |-> 100, compliance_status |-> "fully_compliant",
      risk_level |-> "low"],
     [final_score |-> 80, compliance_status |-> "mostly_compliant",
      risk_level |-> "low"],
     [final_score |-> 50, compliance_status |-> "partially_compliant",
      risk_level |-> "medium"],
     [final_score |-> 49, compliance_status |-> "minimally_compliant",
      risk_level |-> "high"],
     [final_score |-> 0, compliance_status |-> "non_compliant",
      risk_level |-> "critical"],
     [control_id |-> "1-1-1"]}

StatsInputs == UNION {[1..n -> EvaluationsLike] : n \in 0..4}

calculate_framework_stats ==
    /\ args # None
    /\ Val(args).method = "_calculate_framework_stats"
    /\ ret = None
    /\ ret' = Some(_calculate_framework_stats(Val(args).evaluated_controls))
    /\ UNCHANGED <<args, jvars, evars, bvars, svars>>

\* ------------------------------------------------------ _find_relevant_chunks
\* a text is the list of the words that split() gives; str.lower() of a word
Lower(word) ==
    CASE word \in {"Access", "ACCESS"} -> "access"
      [] word = "Control" -> "control"
      [] word = "POLICY" -> "policy"
      [] OTHER -> word

\* set(text.lower().split())
Words(text) == {Lower(text[k]) : k \in DOMAIN text}

\* if overlap > 0
Overlaps_Always(overlap) == overlap >= 0
Overlaps(overlap) == overlap > 0

\* scored_chunks.sort(key=lambda x: x[0], reverse=True) keeps chunks of equal
\* overlap in their order: it is the stable ascending sort on -overlap
_find_relevant_chunks(control_text, document_chunks, top_k) ==
    LET control_words == Words(control_text)
        scored == [k \in DOMAIN document_chunks |->
                    LET chunk_text == DictGet(document_chunks[k], "text", <<>>)
                    IN  <<Cardinality(control_words \cap Words(chunk_text)),
                          chunk_text>>]
        scored_chunks == SelectSeq(scored, LAMBDA x : Overlaps(x[1]))
        sorted == Sorted([k \in DOMAIN scored_chunks |->
                            <<0 - scored_chunks[k][1], scored_chunks[k][2]>>])
    IN  [k \in 1..Min(top_k, Len(sorted)) |-> sorted[k][2]]

\* the chunk texts that are ranked against the control text "Access control
\* policy": texts sharing 0, 1, 2 and 3 words with it, in upper or lower
\* case and with a word repeated; each chunk of a document ends with a word
\* of its own; the fourth chunk shares no word, or has no text
ChunkTexts ==
    {<<"weather", "report">>, <<"ACCESS", "Access", "logs">>,
     <<"access", "Control", "access">>, <<"POLICY", "control", "access">>}
ChunkMarks == <<"c1", "c2", "c3", "c4", "c5", "c6", "c7">>

DocumentsLike ==
    {[k \in 1..n |->
        IF k = 4 /\ n = 4 THEN [page |-> 4]
        ELSE IF k = 4 THEN [text |-> <<"weather", "report", ChunkMarks[k]>>]
        ELSE [text |-> Append(texts[((k - 1) % 3) + 1], ChunkMarks[k])]] :
        n \in {0, 2, 4, 7}, texts \in [1..3 -> ChunkTexts]}

RankerInputs ==
    {[method |-> "_find_relevant_chunks", control_text |-> control_text,
      document_chunks |-> document_chunks] :
        control_text \in {<<"Access", "control", "policy">>, <<>>},
        document_chunks \in DocumentsLike}

\* top_k: int = 5
top_k == 5

find_relevant_chunks ==
    /\ args # None
    /\ Val(args).method = "_find_relevant_chunks"
    /\ ret = None
    /\ ret' = Some(_find_relevant_chunks(Val(args).control_text,
                                         Val(args).document_chunks, top_k))
    /\ UNCHANGED <<args, jvars, evars, bvars, svars>>

\* ----------------------------------------------------- _organize_by_structure
\* a dictionary whose order of insertion shows in the output is the list of
\* its entries, each with its key as id: key in d, d[key], and d[key] = value,
\* which replaces the entry of a key that is there and adds one at the end
\* otherwise
HasKey_Never(entries, key) == FALSE
HasKey(entries, key) == \E k \in DOMAIN entries : entries[k].id = key
KeyIndex(entries, key) == CHOOSE k \in DOMAIN entries : entries[k].id = key
SetItem(entries, value) ==
    IF \E k \in DOMAIN entries : entries[k].id = value.id
    THEN [entries EXCEPT ![KeyIndex(entries, value.id)] = value]
    ELSE Append(entries, value)

\* framework.startswith("nca") and framework.startswith("nist")
StartsWith(framework, prefix) ==
    \/ prefix = "nca" /\ framework \in {"nca_en", "nca_ar"}
    \/ prefix = "nist" /\ framework \in {"nist_en"}

\* one turn of the first loop: the control is appended to the controls of its
\* subdomain (nca) or category (nist), after the domain or function and the
\* subdomain or category are created when the structure lacks them
PlaceControl(structure, framework, control) ==
    LET meta == DictGet(control, "control_meta", <<>>)
        nca == StartsWith(framework, "nca")
        domain_id == DictGet(meta, IF nca THEN "domain_id" ELSE "function_id", "0")
        domain_name == DictGet(meta, IF nca THEN "domain_name" ELSE "function_name",
                               "Unknown")
        subdomain_id == DictGet(meta, IF nca THEN "subdomain_id" ELSE "category_id",
                                "0-0")
        subdomain_name == DictGet(meta, IF nca THEN "subdomain_name"
                                        ELSE "category_name", "Unknown")
        with_domain ==
            IF HasKey(structure, domain_id) THEN structure
            ELSE SetItem(structure,
                         [id |-> domain_id, name |-> domain_name,
                          sub_key |-> IF nca THEN "subdomains" ELSE "categories",
                          groups |-> <<>>, avg_score |-> 0, control_count |-> 0])
        d == KeyIndex(with_domain, domain_id)
        with_subdomain ==
            IF HasKey(with_domain[d].groups, subdomain_id) THEN with_domain
            ELSE [with_domain EXCEPT ![d].groups =
                    SetItem(@, [id |-> subdomain_id, name |-> subdomain_name,
                                controls |-> <<>>, avg_score |-> 0])]
        g == KeyIndex(with_subdomain[d].groups, subdomain_id)
    IN  IF nca \/ StartsWith(framework, "nist")
        THEN [with_subdomain EXCEPT ![d].groups[g].controls = Append(@, control)]
        ELSE structure

RECURSIVE PlaceControls(_, _, _)
PlaceControls(structure, framework, evaluated_controls) ==
    IF evaluated_controls = <<>> THEN structure
    ELSE PlaceControls(PlaceControl(structure, framework, Head(evaluated_controls)),
                       framework, Tail(evaluated_controls))

\* the scores of a list of controls, and a list of lists made one
ScoresOf(controls) ==
    [k \in DOMAIN controls |-> DictGet(controls[k], "final_score", 0)]

RECURSIVE Extend(_)
Extend(lists) == IF lists = <<>> THEN <<>> ELSE Head(lists) \o Extend(Tail(lists))

\* the second loop: the averages and the count
WithAverages(domain) ==
    LET all_scores == Extend([g \in DOMAIN domain.groups |->
                                ScoresOf(domain.groups[g].controls)])
    IN  [domain EXCEPT
            !.groups = [g \in DOMAIN domain.groups |->
                LET scores == ScoresOf(domain.groups[g].controls)
                IN  [domain.groups[g] EXCEPT !.avg_score =
                        IF scores # <<>> THEN Round1(Sum(scores), Len(scores))
                        ELSE 0]],
            !.avg_score = IF all_scores # <<>>
                          THEN Round1(Sum(all_scores), Len(all_scores)) ELSE 0,
            !.control_count = Len(all_scores)]

_organize_by_structure(framework, evaluated_controls) ==
    LET structure == PlaceControls(<<>>, framework, evaluated_controls)
    IN  [k \in DOMAIN structure |-> WithAverages(structure[k])]

\* the evaluations that are organised: up to 3 controls, numbered in order,
\* of two subdomains of one domain, of another domain, with the meta of a
\* framework of the other kind, and without meta and score
ControlMetas ==
    {[final_score |-> 80,
      control_meta |-> [domain_id |-> "1", domain_name |-> "Governance",
                        subdomain_id |-> "1-1", subdomain_name |-> "Strategy"]],
     [final_score |-> 45,
      control_meta |-> [domain_id |-> "1", domain_name |-> "Governance",
                        subdomain_id |-> "1-2", subdomain_name |-> "Management"]],
     [final_score |-> 0,
      control_meta |-> [domain_id |-> "2", domain_name |-> "Defense",
                        subdomain_id |-> "2-1", subdomain_name |-> "Assets"]],
     [final_score |-> 100,
      control_meta |-> [function_id |-> "GV", function_name |-> "GOVERN",
                        category_id |-> "GV.OC", category_name |-> "Context"]],
     [compliance_status |-> "non_compliant"]}

Numbered(controls) ==
    [k \in DOMAIN controls |->
        [key \in DOMAIN controls[k] \cup {"control_id"} |->
            IF key = "control_id" THEN k ELSE controls[k][key]]]

StructureInputs ==
    {[method |-> "_organize_by_structure", framework |-> framework,
      evaluated_controls |-> Numbered(controls)] :
        framework \in {"nca_en", "nca_ar", "nist_en"},
        controls \in UNION {[1..n -> ControlMetas] : n \in 0..3}}

\* the structure is built, and built again from the same arguments; ret keeps
\* the structure of the call before
organize_by_structure ==
    /\ args # None
    /\ Val(args).method = "_organize_by_structure"
    /\ IF ret = None THEN TRUE ELSE Val(ret).previous = None
    /\ ret' = Some([structure |->
                        _organize_by_structure(Val(args).framework,
                                               Val(args).evaluated_controls),
                    previous |-> IF ret = None THEN None
                                 ELSE Some(Val(ret).structure)])
    /\ UNCHANGED <<args, jvars, evars, bvars, svars>>

InitAnalyzer ==
    /\ JobsIdle /\ EvaluatorIdle /\ BandIdle /\ StorageIdle
    /\ args \in
        {Some([method |-> "_generate_summary", framework_results |-> x]) :
            x \in SummaryInputs}
        \cup {Some([method |-> "_calculate_framework_stats",
                    evaluated_controls |-> x]) : x \in StatsInputs}
        \cup {Some(x) : x \in RankerInputs}
        \cup {Some(x) : x \in StructureInputs}
    /\ ret = None

NextAnalyzer ==
    \/ generate_summary
    \/ calculate_framework_stats
    \/ find_relevant_chunks
    \/ organize_by_structure

SpecAnalyzer == InitAnalyzer /\ [][NextAnalyzer]_vars

\* ------------------------------------------------------------------ claims
\* _generate_summary has returned its summary
Summarised ==
    /\ args # None
    /\ Val(args).method = "_generate_summary"
    /\ ret # None

\* where a framework stands in the results that were summarised
FrameworkIndex(framework) ==
    CHOOSE k \in 1..Len(Val(args).framework_results) :
        Val(args).framework_results[k].framework = framework

\* control a is met before control b by the loops over frameworks and controls
ControlBefore(a, b) ==
    \/ FrameworkIndex(a.framework) < FrameworkIndex(b.framework)
    \/ /\ a.framework = b.framework
       /\ a.control_id < b.control_id

\* recommendation a is met before recommendation b
RecommendationBefore(a, b) ==
    \/ ControlBefore(a, b)
    \/ /\ a.framework = b.framework
       /\ a.control_id = b.control_id
       /\ a.recommendation < b.recommendation

\* the recommendations of priority critical or high of the summarised results
HighPriorityGiven ==
    UNION {UNION {{[priority |-> control.recommendations[m].priority,
                    recommendation |-> control.recommendations[m].recommendation,
                    control_id |-> control.control_id,
                    framework |-> result.framework] :
                        m \in {n \in DOMAIN control.recommendations :
                                control.recommendations[n].priority
                                    \in {"critical", "high"}}} :
                    control \in {result.controls[k] : k \in DOMAIN result.controls}} :
            result \in {Val(args).framework_results[k] :
                            k \in DOMAIN Val(args).framework_results}}

\* C26: top_recommendations has only recommendations of priority critical or
\* high that were given, at most 15 of them (all of them when there are no
\* more than 15), every critical one before every high one, and those of
\* equal priority in the order in which the loops over frameworks, controls
\* and recommendations met them; a recommendation left out comes after every
\* listed one of its priority.
C26_TopRecommendations ==
    Summarised =>
        LET top == Val(ret).top_recommendations
        IN  /\ \A k \in DOMAIN top : top[k] \in HighPriorityGiven
            /\ Len(top) = Min(15, Cardinality(HighPriorityGiven))
            /\ \A a, b \in DOMAIN top :
                a < b =>
                    /\ ~(top[a].priority = "high" /\ top[b].priority = "critical")
                    /\ top[a].priority = top[b].priority
                            => RecommendationBefore(top[a], top[b])
            /\ \A a \in DOMAIN top :
                \A x \in HighPriorityGiven \ {top[k] : k \in DOMAIN top} :
                    /\ ~(x.priority = "critical" /\ top[a].priority = "high")
                    /\ x.priority = top[a].priority
                            => RecommendationBefore(top[a], x)

\* more than 15 recommendations of priority critical or high were given, of
\* both priorities and beside others, and 15 are listed
C26_Witness ==
    /\ Summarised
    /\ Cardinality(HighPriorityGiven) > 15
    /\ Len(Val(ret).top_recommendations) = 15
    /\ \E x, y \in HighPriorityGiven : x.priority # y.priority
    /\ \E k \in DOMAIN Val(args).framework_results :
        \E c \in DOMAIN Val(args).framework_results[k].controls :
            \E m \in DOMAIN Val(args).framework_results[k].controls[c].recommendations :
                Val(args).framework_results[k].controls[c].recommendations[m].priority
                    = "medium"

\* the controls of the summarised results whose final_score is below 25
GapsGiven ==
    UNION {{[control_id |-> control.control_id,
             framework |-> result.framework,
             score |-> control.final_score,
             risk_level |-> control.risk_level] :
                control \in {result.controls[k] :
                                k \in {n \in DOMAIN result.controls :
                                        result.controls[n].final_score < 25}}} :
            result \in {Val(args).framework_results[k] :
                            k \in DOMAIN Val(args).framework_results}}

\* C27: critical_gaps lists controls whose final_score is strictly below 25,
\* and no control of score 25 or more, in the order in which the loops met
\* them, and it is the first 10 of them: all of them when there are no more
\* than 10, and a control left out comes after every listed one.
C27_CriticalGaps ==
    Summarised =>
        LET gaps == Val(ret).critical_gaps
        IN  /\ \A k \in DOMAIN gaps : gaps[k] \in GapsGiven /\ gaps[k].score < 25
            /\ Len(gaps) = Min(10, Cardinality(GapsGiven))
            /\ \A a, b \in DOMAIN gaps : a < b => ControlBefore(gaps[a], gaps[b])
            /\ \A a \in DOMAIN gaps :
                \A x \in GapsGiven \ {gaps[k] : k \in DOMAIN gaps} :
                    ControlBefore(gaps[a], x)

\* more than 10 controls score below 25, a control scores exactly 25, and 10
\* are listed
C27_Witness ==
    /\ Summarised
    /\ Cardinality(GapsGiven) > 10
    /\ Len(Val(ret).critical_gaps) = 10
    /\ \E k \in DOMAIN Val(args).framework_results :
        \E c \in DOMAIN Val(args).framework_results[k].controls :
            Val(args).framework_results[k].controls[c].final_score = 25

\* _calculate_framework_stats has returned the statistics of a list that is
\* not empty
StatsMade ==
    /\ args # None
    /\ Val(args).method = "_calculate_framework_stats"
    /\ Val(args).evaluated_controls # <<>>
    /\ ret # None

\* the scores of the evaluations, 0 for one that has none
ScoresGiven ==
    [k \in DOMAIN Val(args).evaluated_controls |->
        IF "final_score" \in DOMAIN Val(args).evaluated_controls[k]
        THEN Val(args).evaluated_controls[k].final_score ELSE 0]

\* the sum of the counts of a breakdown
RECURSIVE SumOfCounts(_, _)
SumOfCounts(counts, keys) ==
    IF keys = {} THEN 0
    ELSE LET key == CHOOSE x \in keys : TRUE
         IN  counts[key] + SumOfCounts(counts, keys \ {key})

\* C28: the statistics of a list of evaluations that is not empty have
\* total_controls = the length of the list, average_score = the tenth
\* nearest to the mean of the scores, needs_attention = the number of scores
\* strictly below 50, and status counts that add up to total_controls; for
\* the scores 100, 0, 50, 80 the average is 57.5 and needs_attention is 1.
C28_FrameworkStats ==
    StatsMade =>
        LET stats == Val(ret)
            n == Len(Val(args).evaluated_controls)
        IN  /\ stats.total_controls = n
            /\ 2 * (stats.average_score * n - 10 * Sum(ScoresGiven)) <= n
            /\ 2 * (10 * Sum(ScoresGiven) - stats.average_score * n) <= n
            /\ stats.needs_attention
                    = Cardinality({k \in DOMAIN ScoresGiven : ScoresGiven[k] < 50})
            /\ SumOfCounts(stats.status_breakdown, DOMAIN stats.status_breakdown)
                    = n
            /\ ScoresGiven = <<100, 0, 50, 80>> =>
                    /\ stats.average_score = 575
                    /\ stats.needs_attention = 1

\* the statistics of the scores 100, 0, 50, 80 are made
C28_Witness ==
    /\ StatsMade
    /\ ScoresGiven = <<100, 0, 50, 80>>
    /\ Val(ret).average_score = 575

\* _find_relevant_chunks has returned
Ranked ==
    /\ args # None
    /\ Val(args).method = "_find_relevant_chunks"
    /\ ret # None

\* the number of words that chunk k of the document shares with the control
\* text, whatever their case and however often they occur
OverlapOf(k) ==
    LET chunk == Val(args).document_chunks[k]
        text == IF "text" \in DOMAIN chunk THEN chunk.text ELSE <<>>
    IN  Cardinality({Lower(Val(args).control_text[i]) :
                        i \in DOMAIN Val(args).control_text}
                    \cap {Lower(text[i]) : i \in DOMAIN text})

\* C29: the ranker returns texts of chunks that share at least one word with
\* the control text, each chunk once, the larger overlap first and chunks of
\* equal overlap in the order of the document; it returns the first top_k = 5
\* of them (all when there are no more), so a chunk left out ranks after
\* every returned one, and the empty list when no chunk overlaps.
C29_RankedByOverlap ==
    Ranked =>
        LET chunks == Val(args).document_chunks
            overlapping == {k \in DOMAIN chunks : OverlapOf(k) >= 1}
        IN  /\ Len(Val(ret)) = Min(5, Cardinality(overlapping))
            /\ \E pick \in [DOMAIN Val(ret) -> overlapping] :
                /\ \A a \in DOMAIN Val(ret) : Val(ret)[a] = chunks[pick[a]].text
                /\ \A a, b \in DOMAIN Val(ret) :
                    a < b =>
                        \/ OverlapOf(pick[a]) > OverlapOf(pick[b])
                        \/ /\ OverlapOf(pick[a]) = OverlapOf(pick[b])
                           /\ pick[a] < pick[b]
                /\ \A a \in DOMAIN Val(ret) :
                    \A k \in overlapping \ {pick[b] : b \in DOMAIN Val(ret)} :
                        \/ OverlapOf(pick[a]) > OverlapOf(k)
                        \/ /\ OverlapOf(pick[a]) = OverlapOf(k)
                           /\ pick[a] < k
            /\ overlapping = {} => Val(ret) = <<>>

\* more than 5 chunks overlap, two of them equally, a chunk does not overlap,
\* and 5 texts are returned
C29_Witness ==
    /\ Ranked
    /\ Len(Val(ret)) = 5
    /\ Cardinality({k \in DOMAIN Val(args).document_chunks : OverlapOf(k) >= 1}) > 5
    /\ \E k \in DOMAIN Val(args).document_chunks : OverlapOf(k) = 0
    /\ \E a, b \in DOMAIN Val(args).document_chunks :
        a # b /\ OverlapOf(a) = OverlapOf(b) /\ OverlapOf(a) >= 1

\* _organize_by_structure has returned
Organised ==
    /\ args # None
    /\ Val(args).method = "_organize_by_structure"
    /\ ret # None

\* the leaf groups of a structure in which a control is
LeavesOf(structure, control) ==
    {<<d, g, c>> \in (DOMAIN structure) \X (1..3) \X (1..3) :
        /\ g \in DOMAIN structure[d].groups
        /\ c \in DOMAIN structure[d].groups[g].controls
        /\ structure[d].groups[g].controls[c] = control}

\* the controls beneath a domain or function
Beneath(domain) ==
    {<<g, c>> \in (1..3) \X (1..3) :
        /\ g \in DOMAIN domain.groups
        /\ c \in DOMAIN domain.groups[g].controls}

Transient(exception) ==
    exception \in {"RateLimitError", "APITimeoutError", "APIConnectionError"}

\* an attempt of the call of layer n raises
LayerCallRaises(n, exception) ==
    CASE n = 1 -> layer1_call_raises(exception)
      [] n = 2 -> layer2_call_raises(exception)
      [] n = 3 -> layer3_call_raises(exception)

\* C31: a call of a layer is attempted again only after a failure that is
\* transient: an attempt that raises another exception is the last one of
\* its layer, which goes on with its except clause.
C31_OnlyTransientRetried ==
    [][\A n \in Layers, exception \in Exceptions :
            (LayerCallRaises(n, exception) /\ ~Transient(exception))
                => /\ stage' # stage
                   /\ n \in {1, 2} => LayerResult(n)' # None]_vars

\* --------------------------------------------------- the fields of a status
\* the fields that go with the status of a job dictionary
FieldsOfStatus(job) ==
    /\ job.status = "processing" => job.started_at # None /\ job.frameworks # None
    /\ job.status = "completed" => job.completed_at # None /\ job.results # None
    /\ job.status = "failed" => job.failed_at # None /\ job.error # None

\* C32: in every state a job in status processing has started_at and
\* frameworks, a job in status completed has completed_at and results, and a
\* job in status failed has failed_at and error.
C32_StatusHasItsFields ==
    \A j \in job_storage : FieldsOfStatus(job_obj[j])

\* the same whenever a request can be served
C32_WhenEventLoopFree ==
    EventLoopFree => C32_StatusHasItsFields

\* C33: in every state a job whose error, or whose failed_at, is set is in
\* status failed: a failed job that was started again carries neither.
C33_ErrorOnlyWhenFailed ==
    \A j \in job_storage :
        job_obj[j].status \in {"uploaded", "processing", "completed"} =>
            /\ job_obj[j].error = None
            /\ job_obj[j].failed_at = None

\* ------------------------------------------------------------- termination
\* a job in status processing has a run that has not ended, and the run is
\* within its loops: a framework of the request, a control of the framework
ProcessingHasRun ==
    /\ \A j \in job_storage :
            job_obj[j].status = "processing" => ActiveRuns(j) # {}
    /\ \A r \in RunIds :
            InControlLoop(runs[r]) =>
                /\ runs[r].fi <= Len(runs[r].frameworks)
                /\ runs[r].i <= Len(runs[r].all_controls)

\* C34: when every awaited call returns or raises and the event loop resumes
\* every task that is ready, a job that is processing is later completed or
\* failed, unless it is deleted before.
C34_ProcessingEnds ==
    /\ []ProcessingHasRun
    /\ \A j \in JobIds :
            (j \in job_storage /\ job_obj[j].status = "processing")
                ~> ( \/ j \notin job_storage
                     \/ job_obj[j].status \in {"completed", "failed"} )

\* with an evaluator, a job has been completed by a run that evaluated the
\* three controls of two frameworks, and another job has failed
C34_Witness ==
    /\ evaluator
    /\ \E j \in job_storage :
            /\ job_obj[j].status = "completed"
            /\ job_obj[j].results # None
            /\ Val(Val(job_obj[j].results).summary).total_controls_evaluated = 3
    /\ \E j \in job_storage :
            /\ job_obj[j].status = "failed"
            /\ job_obj[j].progress # None

\* ------------------------------------------------- the order of the layers
\* C35: when layer 1's call ended in RetryError, layer 1 returned its
\* fallback, and evaluate_control has returned the evaluation without deeper
\* analysis (final_score 0, non_compliant, confidence 0.8,
\* skipped_deeper_analysis true); layers 2 and 3 were not invoked.
C35_Layer1FailureSkips ==
    1 \in retry_errors =>
        /\ layer1_result = Some(Layer1Fallback)
        /\ stage = "returned"
        /\ evaluation # None
        /\ Val(evaluation).final_score = Number(0)
        /\ Val(evaluation).compliance_status = Str("non_compliant")
        /\ Val(evaluation).confidence = Number(80)
        /\ Val(evaluation).skipped_deeper_analysis
        /\ invocations[2] = 0 /\ invocations[3] = 0
        /\ attempts[2] = 0 /\ attempts[3] = 0

\* layer 1's call was attempted three times and raised each time
C35_Witness ==
    /\ 1 \in retry_errors
    /\ attempts[1] = stop_after_attempt
    /\ stage = "returned"

\* layer 1's dictionary says is_relevant true, or gives a relevance_score of
\* 0.2 or more
ReportsRelevant(layer1) ==
    \/ layer1.is_relevant = Bool(TRUE)
    \/ /\ layer1.relevance_score.type = "number"
       /\ layer1.relevance_score.n >= 20

\* C36: when layer 1 says is_relevant true, whatever the relevance_score, or
\* gives a relevance_score of 0.2 or more, layer 2 is invoked, and once layer 2
\* has returned layer 3 is invoked; the evaluation is never the one without
\* deeper analysis.
C36_RelevantIsAnalysed ==
    (layer1_result # None /\ ReportsRelevant(Val(layer1_result))) =>
        /\ invocations[2] = 1
        /\ stage = "layer2" \/ invocations[3] = 1
        /\ evaluation # None => ~Val(evaluation).skipped_deeper_analysis

\* layer 1 said is_relevant true with a relevance_score that is a text, and
\* layers 2 and 3 were invoked
C36_Witness ==
    /\ layer1_result # None
    /\ Val(layer1_result).is_relevant = Bool(TRUE)
    /\ Val(layer1_result).relevance_score = Str("low")
    /\ invocations[2] = 1
    /\ invocations[3] = 1
    /\ stage = "returned"

\* C37: each layer is invoked at most once, layer 2 after layer 1 has returned
\* and layer 3 after layer 2 has; layer 3 is invoked whenever layer 2 has
\* returned, also when layer 2 returned its fallback, and it is given what
\* layer 2 returned: the fallback of layer 3 carries that preliminary_score.
C37_LayersInOrder ==
    /\ \A n \in Layers : invocations[n] <= 1
    /\ \A n \in Layers : attempts[n] > 0 => invocations[n] = 1
    /\ invocations[2] = 1 => (invocations[1] = 1 /\ layer1_result # None)
    /\ invocations[3] = 1 <=> layer2_result # None
    /\ 2 \in retry_errors =>
            /\ layer2_result = Some(Layer2Fallback)
            /\ invocations[3] = 1
    /\ (3 \in retry_errors /\ layer3_result # None) =>
            Val(layer3_result).final_score
                = Get(Val(layer2_result).preliminary_score, Number(0))

\* the calls of layers 2 and 3 both ended in RetryError, and evaluate_control
\* returned the score of layer 2's fallback
C37_Witness ==
    /\ 2 \in retry_errors
    /\ 3 \in retry_errors
    /\ stage = "returned"
    /\ layer3_result # None
    /\ Val(layer3_result).final_score = Number(0)

\* ------------------------------------------------------- deleted jobs
\* job id j has been in the job table and delete_job has removed it: ids are
\* never given twice, so a used id that the table lacks was deleted
Deleted(j) == j \notin job_storage /\ job_obj[j] # NoJob

\* C38: a job id that delete_job has removed stays out of the job table in
\* every later state, also while a run of the job goes on and when it ends:
\* no step puts the id back, and a status request for it answers 404.
C38_DeletedStaysAbsent ==
    [][\A j \in JobIds :
            Deleted(j) =>
                /\ j \notin job_storage'
                /\ get_job_status(j) => response'.status_code = 404]_vars

\* a job was deleted during its run and a status request for it answered 404;
\* the run then wrote status completed to the dictionary it holds, and the
\* table still lacks the id
C38_Witness ==
    \E j \in JobIds :
        /\ Deleted(j)
        /\ job_obj[j] # Freed
        /\ job_obj[j].status = "completed"
        /\ job_obj[j].progress # None
        /\ ActiveRuns(j) # {}
        /\ response.op = "status"
        /\ response.job_id = j
        /\ response.status_code = 404

\* ------------------------------------------------ delete on SupabaseJobStorage
\* C39: on SupabaseJobStorage, the get of a job that follows its delete
\* returns None, whether the delete of the row went through or raised and was
\* printed.
C39_DeletedIsGone ==
    [][(/\ backend = "supabase"
        /\ call.op = "delete"
        /\ call.pc = "returned"
        /\ call'.op = "get"
        /\ call'.args = call.args)
       => call'.result = None]_vars

====
